---- MODULE Spec2Model ----
(***************************************************************************)
(* Model of the KubeVirt RBAC validating webhook                           *)
(* (internal/webhook/v1/virtualmachine_webhook.go and                      *)
(* internal/webhook/v1/field_permission_checkers.go).                      *)
(*                                                                         *)
(* Go values are represented as follows.  A nil pointer, a nil or empty    *)
(* slice, a nil or empty map and the zero value of a scalar are all the    *)
(* "erased" value: 0 for scalars and pointers to scalars, <<>> for slices  *)
(* and for pointers to structs (a non-nil pointer to a struct s is <<s>>). *)
(* equality.Semantic.DeepEqual does not tell a nil slice from an empty one *)
(* so the two share one representation.                                    *)
(***************************************************************************)
EXTENDS Integers, Sequences, FiniteSets, TLC

VARIABLES
    phase,      \* "idle" | "pending" | "done": position of the current admission call
    op,         \* "NONE" | "CREATE" | "UPDATE" | "DELETE": which validator method is called
    oldObj,     \* the old VirtualMachine handed to the validator
    newObj,     \* the new VirtualMachine handed to the validator
    hasRequest, \* the context of the call carries an admission request
    queries,    \* the CheckPermission calls issued so far, in order, with their answers
    verdict,    \* "none" | "Allow" | "DenyMetadata" | "DenySpec" | "Error" | "Panic"
    calls       \* the ValidateUpdate calls in progress when followed statement by statement

vars == <<phase, op, oldObj, newObj, hasRequest, queries, verdict, calls>>

-----------------------------------------------------------------------------
(* Bounds of the explored requests *)

\* an update request differs from the stored object by at most this many edits
MaxEdits == 2

\* the same for the calls followed statement by statement
MaxStepEdits == 1

\* the number of ValidateUpdate calls in progress at the same time
NumCalls == 2

-----------------------------------------------------------------------------
(* Checkers and their RBAC subresources *)

FullAdmin == "virtualmachines/full-admin"

\* FieldCheckers as configured in SetupVirtualMachineWebhookWithManager
FieldCheckers == << "network", "compute", "devices", "lifecycle", "cdrom", "storage" >>

Subresource(c) ==
    CASE c = "storage"   -> "virtualmachines/storage-admin"
      [] c = "cdrom"     -> "virtualmachines/cdrom-user"
      [] c = "network"   -> "virtualmachines/network-admin"
      [] c = "compute"   -> "virtualmachines/compute-admin"
      [] c = "devices"   -> "virtualmachines/devices-admin"
      [] c = "lifecycle" -> "virtualmachines/lifecycle-admin"

CheckerNames == { FieldCheckers[i] : i \in 1..Len(FieldCheckers) }

-----------------------------------------------------------------------------
(* equality.Semantic.DeepEqual on the modelled values *)

SemanticDeepEqual(a, b) == a = b

\* a runtime.Object that is not a *VirtualMachine
NotAVirtualMachine == [Kind |-> "Pod"]

\* the type assertion obj.(*kubevirtiov1.VirtualMachine)
IsVirtualMachine(obj) == obj # NotAVirtualMachine

HasTemplate(vm) == vm.Spec.Template # <<>>

\* vm.Spec.Template.Spec of a VM whose Template is not nil
TSpec(vm) == vm.Spec.Template[1].Spec

-----------------------------------------------------------------------------
(* StoragePermissionChecker *)

\* HasChanged dereferences Spec.Template without a nil check
StorageHasChangedPanics(oldVM, newVM) ==
    ~HasTemplate(oldVM) \/ ~HasTemplate(newVM)

\* StorageHasChanged without the comparison of the volumes
StorageHasChanged_NoVolumes(oldVM, newVM) ==
    LET disksChanged == ~SemanticDeepEqual(TSpec(oldVM).Domain.Devices.Disks,
                                           TSpec(newVM).Domain.Devices.Disks)
        filesystemsChanged == ~SemanticDeepEqual(TSpec(oldVM).Domain.Devices.Filesystems,
                                                 TSpec(newVM).Domain.Devices.Filesystems)
    IN  disksChanged \/ filesystemsChanged

StorageHasChanged(oldVM, newVM) ==
    LET volumesChanged == ~SemanticDeepEqual(TSpec(oldVM).Volumes, TSpec(newVM).Volumes)
        disksChanged == ~SemanticDeepEqual(TSpec(oldVM).Domain.Devices.Disks,
                                           TSpec(newVM).Domain.Devices.Disks)
        filesystemsChanged == ~SemanticDeepEqual(TSpec(oldVM).Domain.Devices.Filesystems,
                                                 TSpec(newVM).Domain.Devices.Filesystems)
    IN  volumesChanged \/ disksChanged \/ filesystemsChanged

StorageNeutralizeOne(vm) ==
    [vm EXCEPT !.Spec.Template[1].Spec.Volumes = <<>>,
               !.Spec.Template[1].Spec.Domain.Devices.Disks = <<>>,
               !.Spec.Template[1].Spec.Domain.Devices.Filesystems = <<>>]

\* StorageNeutralize that clears the old copy only
StorageNeutralize_OldOnly(oldVM, newVM) ==
    IF ~HasTemplate(oldVM) \/ ~HasTemplate(newVM)
    THEN <<oldVM, newVM>>
    ELSE <<StorageNeutralizeOne(oldVM), newVM>>

\* returns the pair <<oldVM, newVM>> as left by Neutralize
StorageNeutralize(oldVM, newVM) ==
    IF ~HasTemplate(oldVM) \/ ~HasTemplate(newVM)
    THEN <<oldVM, newVM>>
    ELSE <<StorageNeutralizeOne(oldVM), StorageNeutralizeOne(newVM)>>

-----------------------------------------------------------------------------
(* CdromUserPermissionChecker *)

getCdromDisks(vm) ==
    IF ~HasTemplate(vm) THEN <<>>
    ELSE LET IsCdrom(disk) == disk.CDRom # <<>>
         IN  SelectSeq(TSpec(vm).Domain.Devices.Disks, IsCdrom)

\* isVolumeHotpluggable without the PersistentVolumeClaim source
isVolumeHotpluggable_DataVolumeOnly(volume) ==
    volume.DataVolume # <<>> /\ volume.DataVolume[1].Hotpluggable

isVolumeHotpluggable(volume) ==
    \/ volume.DataVolume # <<>> /\ volume.DataVolume[1].Hotpluggable
    \/ volume.PersistentVolumeClaim # <<>> /\ volume.PersistentVolumeClaim[1].Hotpluggable

getHotpluggableCdromVolumes(vm) ==
    IF ~HasTemplate(vm) THEN <<>>
    ELSE LET disks == TSpec(vm).Domain.Devices.Disks
             cdromDiskNames == { disks[i].Name : i \in { j \in 1..Len(disks) : disks[j].CDRom # <<>> } }
             Sel(volume) == volume.Name \in cdromDiskNames /\ isVolumeHotpluggable(volume)
         IN  SelectSeq(TSpec(vm).Volumes, Sel)

getHotpluggableCdromVolumeNames(vm) ==
    LET volumes == getHotpluggableCdromVolumes(vm)
    IN  { volumes[i].Name : i \in 1..Len(volumes) }

filterOutVolumes(volumes, namesToRemove) ==
    LET Keep(vol) == vol.Name \notin namesToRemove
    IN  SelectSeq(volumes, Keep)

\* CdromHasChanged without the comparison of the CD-ROM disks
CdromHasChanged_NoDiskGuard(oldVM, newVM) ==
    ~SemanticDeepEqual(getHotpluggableCdromVolumes(oldVM),
                       getHotpluggableCdromVolumes(newVM))

CdromHasChanged(oldVM, newVM) ==
    IF ~SemanticDeepEqual(getCdromDisks(oldVM), getCdromDisks(newVM))
    THEN FALSE
    ELSE ~SemanticDeepEqual(getHotpluggableCdromVolumes(oldVM),
                            getHotpluggableCdromVolumes(newVM))

\* CdromNeutralize that removes the media from the new copy only
CdromNeutralize_NewOnly(oldVM, newVM) ==
    IF ~HasTemplate(oldVM) \/ ~HasTemplate(newVM)
    THEN <<oldVM, newVM>>
    ELSE << oldVM,
            [newVM EXCEPT !.Spec.Template[1].Spec.Volumes =
                             filterOutVolumes(TSpec(newVM).Volumes,
                                              getHotpluggableCdromVolumeNames(newVM))] >>

CdromNeutralize(oldVM, newVM) ==
    IF ~HasTemplate(oldVM) \/ ~HasTemplate(newVM)
    THEN <<oldVM, newVM>>
    ELSE LET cdromNames == getHotpluggableCdromVolumeNames(oldVM)
                             \cup getHotpluggableCdromVolumeNames(newVM)
         IN  << [oldVM EXCEPT !.Spec.Template[1].Spec.Volumes =
                                 filterOutVolumes(TSpec(oldVM).Volumes, cdromNames)],
                [newVM EXCEPT !.Spec.Template[1].Spec.Volumes =
                                 filterOutVolumes(TSpec(newVM).Volumes, cdromNames)] >>

-----------------------------------------------------------------------------
(* NetworkPermissionChecker *)

NetworkHasChanged(oldVM, newVM) ==
    IF ~HasTemplate(oldVM) \/ ~HasTemplate(newVM) THEN FALSE
    ELSE LET interfacesChanged == ~SemanticDeepEqual(TSpec(oldVM).Domain.Devices.Interfaces,
                                                     TSpec(newVM).Domain.Devices.Interfaces)
             networksChanged == ~SemanticDeepEqual(TSpec(oldVM).Networks, TSpec(newVM).Networks)
         IN  interfacesChanged \/ networksChanged

NetworkNeutralizeOne(vm) ==
    [vm EXCEPT !.Spec.Template[1].Spec.Domain.Devices.Interfaces = <<>>,
               !.Spec.Template[1].Spec.Networks = <<>>]

NetworkNeutralize(oldVM, newVM) ==
    IF ~HasTemplate(oldVM) \/ ~HasTemplate(newVM)
    THEN <<oldVM, newVM>>
    ELSE <<NetworkNeutralizeOne(oldVM), NetworkNeutralizeOne(newVM)>>

-----------------------------------------------------------------------------
(* ComputePermissionChecker *)

ComputeHasChanged(oldVM, newVM) ==
    IF ~HasTemplate(oldVM) \/ ~HasTemplate(newVM) THEN FALSE
    ELSE LET cpuChanged == ~SemanticDeepEqual(TSpec(oldVM).Domain.CPU, TSpec(newVM).Domain.CPU)
             resourcesChanged == ~SemanticDeepEqual(TSpec(oldVM).Domain.Resources,
                                                    TSpec(newVM).Domain.Resources)
         IN  cpuChanged \/ resourcesChanged

\* ComputeNeutralizeOne that clears the guest memory settings as well
ComputeNeutralizeOne_WithMemory(vm) ==
    [vm EXCEPT !.Spec.Template[1].Spec.Domain.CPU = 0,
               !.Spec.Template[1].Spec.Domain.Resources = 0,
               !.Spec.Template[1].Spec.Domain.Memory = 0]

ComputeNeutralizeOne(vm) ==
    [vm EXCEPT !.Spec.Template[1].Spec.Domain.CPU = 0,
               !.Spec.Template[1].Spec.Domain.Resources = 0]

ComputeNeutralize(oldVM, newVM) ==
    IF ~HasTemplate(oldVM) \/ ~HasTemplate(newVM)
    THEN <<oldVM, newVM>>
    ELSE <<ComputeNeutralizeOne(oldVM), ComputeNeutralizeOne(newVM)>>

-----------------------------------------------------------------------------
(* DevicesPermissionChecker *)

DevicesHasChanged(oldVM, newVM) ==
    IF ~HasTemplate(oldVM) \/ ~HasTemplate(newVM) THEN FALSE
    ELSE LET oldDevices == TSpec(oldVM).Domain.Devices
             newDevices == TSpec(newVM).Domain.Devices
             gpusChanged == ~SemanticDeepEqual(oldDevices.GPUs, newDevices.GPUs)
             hostDevicesChanged == ~SemanticDeepEqual(oldDevices.HostDevices, newDevices.HostDevices)
             watchdogChanged == ~SemanticDeepEqual(oldDevices.Watchdog, newDevices.Watchdog)
             tpmChanged == ~SemanticDeepEqual(oldDevices.TPM, newDevices.TPM)
             inputsChanged == ~SemanticDeepEqual(oldDevices.Inputs, newDevices.Inputs)
         IN  gpusChanged \/ hostDevicesChanged \/ watchdogChanged \/ tpmChanged \/ inputsChanged

DevicesNeutralizeOne(vm) ==
    [vm EXCEPT !.Spec.Template[1].Spec.Domain.Devices.GPUs = <<>>,
               !.Spec.Template[1].Spec.Domain.Devices.HostDevices = <<>>,
               !.Spec.Template[1].Spec.Domain.Devices.Watchdog = 0,
               !.Spec.Template[1].Spec.Domain.Devices.TPM = 0,
               !.Spec.Template[1].Spec.Domain.Devices.Inputs = <<>>]

DevicesNeutralize(oldVM, newVM) ==
    IF ~HasTemplate(oldVM) \/ ~HasTemplate(newVM)
    THEN <<oldVM, newVM>>
    ELSE <<DevicesNeutralizeOne(oldVM), DevicesNeutralizeOne(newVM)>>

-----------------------------------------------------------------------------
(* LifecyclePermissionChecker *)

LifecycleHasChanged(oldVM, newVM) ==
    LET runningChanged == ~SemanticDeepEqual(oldVM.Spec.Running, newVM.Spec.Running)
        runStrategyChanged == ~SemanticDeepEqual(oldVM.Spec.RunStrategy, newVM.Spec.RunStrategy)
    IN  runningChanged \/ runStrategyChanged

LifecycleNeutralizeOne(vm) ==
    [vm EXCEPT !.Spec.Running = 0, !.Spec.RunStrategy = 0]

LifecycleNeutralize(oldVM, newVM) ==
    <<LifecycleNeutralizeOne(oldVM), LifecycleNeutralizeOne(newVM)>>

-----------------------------------------------------------------------------
(* FieldPermissionChecker interface dispatch *)

HasChangedPanics(c, oldVM, newVM) ==
    c = "storage" /\ StorageHasChangedPanics(oldVM, newVM)

HasChanged(c, oldVM, newVM) ==
    CASE c = "storage"   -> StorageHasChanged(oldVM, newVM)
      [] c = "cdrom"     -> CdromHasChanged(oldVM, newVM)
      [] c = "network"   -> NetworkHasChanged(oldVM, newVM)
      [] c = "compute"   -> ComputeHasChanged(oldVM, newVM)
      [] c = "devices"   -> DevicesHasChanged(oldVM, newVM)
      [] c = "lifecycle" -> LifecycleHasChanged(oldVM, newVM)

Neutralize(c, oldVM, newVM) ==
    CASE c = "storage"   -> StorageNeutralize(oldVM, newVM)
      [] c = "cdrom"     -> CdromNeutralize(oldVM, newVM)
      [] c = "network"   -> NetworkNeutralize(oldVM, newVM)
      [] c = "compute"   -> ComputeNeutralize(oldVM, newVM)
      [] c = "devices"   -> DevicesNeutralize(oldVM, newVM)
      [] c = "lifecycle" -> LifecycleNeutralize(oldVM, newVM)

-----------------------------------------------------------------------------
(* VirtualMachineCustomValidator *)

SystemMetadataFields ==
    { "ResourceVersion", "Generation", "ManagedFields", "SelfLink", "UID",
      "CreationTimestamp", "DeletionTimestamp", "DeletionGracePeriodSeconds" }

normalizeOne(meta) ==
    [meta EXCEPT !.ResourceVersion = 0,
                 !.Generation = 0,
                 !.ManagedFields = 0,
                 !.SelfLink = 0,
                 !.UID = 0,
                 !.CreationTimestamp = 0,
                 !.DeletionTimestamp = 0,
                 !.DeletionGracePeriodSeconds = 0]

\* returns the pair <<oldMeta, newMeta>> as left by normalizeSystemMetadata
normalizeSystemMetadata(oldMeta, newMeta) ==
    <<normalizeOne(oldMeta), normalizeOne(newMeta)>>

\* One answer of PermissionChecker.CheckPermission: (true, nil), (false, nil) or (_, err)
Answers == { "true", "false", "error" }

AllSubresources == { FullAdmin } \cup { Subresource(c) : c \in CheckerNames }

\* QueryLoop taking a failed query for the answer false
RECURSIVE QueryLoop_ErrorAsFalse(_, _, _, _, _, _)
QueryLoop_ErrorAsFalse(checkers, i, oracle, perms, hasAnySubresource, log) ==
    IF i > Len(checkers)
    THEN [err |-> FALSE, perms |-> perms, hasAnySubresource |-> hasAnySubresource, log |-> log]
    ELSE LET sub == Subresource(checkers[i])
             ans == oracle[sub]
             log2 == Append(log, [subresource |-> sub, answer |-> ans])
         IN  QueryLoop_ErrorAsFalse(checkers, i + 1, oracle,
                                    (sub :> (ans = "true")) @@ perms,
                                    hasAnySubresource \/ ans = "true", log2)

\* QueryLoop in which a granted subresource replaces the grants recorded so far
RECURSIVE QueryLoop_LastGrantOnly(_, _, _, _, _, _)
QueryLoop_LastGrantOnly(checkers, i, oracle, perms, hasAnySubresource, log) ==
    IF i > Len(checkers)
    THEN [err |-> FALSE, perms |-> perms, hasAnySubresource |-> hasAnySubresource, log |-> log]
    ELSE LET sub == Subresource(checkers[i])
             ans == oracle[sub]
             log2 == Append(log, [subresource |-> sub, answer |-> ans])
         IN  IF ans = "error"
             THEN [err |-> TRUE, perms |-> perms, hasAnySubresource |-> hasAnySubresource,
                   log |-> log2]
             ELSE QueryLoop_LastGrantOnly(checkers, i + 1, oracle,
                            IF ans = "true"
                            THEN (sub :> TRUE) @@ [s \in DOMAIN perms |-> FALSE]
                            ELSE (sub :> FALSE) @@ perms,
                            hasAnySubresource \/ ans = "true", log2)

\* Step 2 of ValidateUpdate: the loop that queries every checker's subresource.
\* perms is subresourcePermissions, log the CheckPermission calls issued so far.
RECURSIVE QueryLoop(_, _, _, _, _, _)
QueryLoop(checkers, i, oracle, perms, hasAnySubresource, log) ==
    IF i > Len(checkers)
    THEN [err |-> FALSE, perms |-> perms, hasAnySubresource |-> hasAnySubresource, log |-> log]
    ELSE LET sub == Subresource(checkers[i])
             ans == oracle[sub]
             log2 == Append(log, [subresource |-> sub, answer |-> ans])
         IN  IF ans = "error"
             THEN [err |-> TRUE, perms |-> perms, hasAnySubresource |-> hasAnySubresource,
                   log |-> log2]
             ELSE QueryLoop(checkers, i + 1, oracle,
                            (sub :> (ans = "true")) @@ perms,
                            hasAnySubresource \/ ans = "true", log2)

\* CheckerLoop giving up at the first change the actor holds no grant for
RECURSIVE CheckerLoop_StopAtUnauthorized(_, _, _, _, _)
CheckerLoop_StopAtUnauthorized(checkers, i, oldCopy, newCopy, perms) ==
    IF i > Len(checkers)
    THEN [panic |-> FALSE, oldCopy |-> oldCopy, newCopy |-> newCopy]
    ELSE LET checker == checkers[i]
         IN  IF HasChangedPanics(checker, oldCopy, newCopy)
             THEN [panic |-> TRUE, oldCopy |-> oldCopy, newCopy |-> newCopy]
             ELSE IF HasChanged(checker, oldCopy, newCopy)
                  THEN IF perms[Subresource(checker)]
                       THEN LET n == Neutralize(checker, oldCopy, newCopy)
                            IN  CheckerLoop_StopAtUnauthorized(checkers, i + 1, n[1], n[2], perms)
                       ELSE [panic |-> FALSE, oldCopy |-> oldCopy, newCopy |-> newCopy]
                  ELSE CheckerLoop_StopAtUnauthorized(checkers, i + 1, oldCopy, newCopy, perms)

\* CheckerLoop reading the grant of the checker configured at position i
\* instead of the grant of the checker it evaluates
RECURSIVE CheckerLoop_GrantByPosition(_, _, _, _, _)
CheckerLoop_GrantByPosition(checkers, i, oldCopy, newCopy, perms) ==
    IF i > Len(checkers)
    THEN [panic |-> FALSE, oldCopy |-> oldCopy, newCopy |-> newCopy]
    ELSE LET checker == checkers[i]
         IN  IF HasChangedPanics(checker, oldCopy, newCopy)
             THEN [panic |-> TRUE, oldCopy |-> oldCopy, newCopy |-> newCopy]
             ELSE IF HasChanged(checker, oldCopy, newCopy)
                        /\ perms[Subresource(FieldCheckers[i])]
                  THEN LET n == Neutralize(checker, oldCopy, newCopy)
                       IN  CheckerLoop_GrantByPosition(checkers, i + 1, n[1], n[2], perms)
                  ELSE CheckerLoop_GrantByPosition(checkers, i + 1, oldCopy, newCopy, perms)

\* Step 3 of ValidateUpdate: the loop over the checkers on the working copies.
RECURSIVE CheckerLoop(_, _, _, _, _)
CheckerLoop(checkers, i, oldCopy, newCopy, perms) ==
    IF i > Len(checkers)
    THEN [panic |-> FALSE, oldCopy |-> oldCopy, newCopy |-> newCopy]
    ELSE LET checker == checkers[i]
         IN  IF HasChangedPanics(checker, oldCopy, newCopy)
             THEN [panic |-> TRUE, oldCopy |-> oldCopy, newCopy |-> newCopy]
             ELSE IF HasChanged(checker, oldCopy, newCopy) /\ perms[Subresource(checker)]
                  THEN LET n == Neutralize(checker, oldCopy, newCopy)
                       IN  CheckerLoop(checkers, i + 1, n[1], n[2], perms)
                  ELSE CheckerLoop(checkers, i + 1, oldCopy, newCopy, perms)

\* ResidualVerdict reporting a spec difference before a metadata difference
ResidualVerdict_SpecFirst(oldCopy, newCopy) ==
    LET metas == normalizeSystemMetadata(oldCopy.ObjectMeta, newCopy.ObjectMeta)
        specChanged == ~SemanticDeepEqual(oldCopy.Spec, newCopy.Spec)
        metadataChanged == ~SemanticDeepEqual(metas[1], metas[2])
    IN  IF specChanged \/ metadataChanged
        THEN IF specChanged THEN "DenySpec" ELSE "DenyMetadata"
        ELSE "Allow"

\* Steps 4 and 5 of ValidateUpdate on the working copies left by step 3
ResidualVerdict(oldCopy, newCopy) ==
    LET metas == normalizeSystemMetadata(oldCopy.ObjectMeta, newCopy.ObjectMeta)
        specChanged == ~SemanticDeepEqual(oldCopy.Spec, newCopy.Spec)
        metadataChanged == ~SemanticDeepEqual(metas[1], metas[2])
    IN  IF specChanged \/ metadataChanged
        THEN IF metadataChanged THEN "DenyMetadata" ELSE "DenySpec"
        ELSE "Allow"

\* ValidateUpdateWith without the full-admin bypass of step 1
ValidateUpdateWith_NoBypass(checkers, oldVM, newVM, oracle) ==
    LET fa == [subresource |-> FullAdmin, answer |-> oracle[FullAdmin]]
    IN  IF oracle[FullAdmin] = "error"
        THEN [verdict |-> "Error", queries |-> <<fa>>]
        ELSE LET q == QueryLoop(checkers, 1, oracle, <<>>, FALSE, <<fa>>)
             IN  IF q.err
                 THEN [verdict |-> "Error", queries |-> q.log]
                 ELSE IF ~q.hasAnySubresource
                 THEN [verdict |-> "Allow", queries |-> q.log]
                 ELSE LET r == CheckerLoop(checkers, 1, oldVM, newVM, q.perms)
                      IN  IF r.panic
                          THEN [verdict |-> "Panic", queries |-> q.log]
                          ELSE [verdict |-> ResidualVerdict(r.oldCopy, r.newCopy),
                                queries |-> q.log]

\* ValidateUpdateWith without the early return for actors without any grant
ValidateUpdateWith_NoOptIn(checkers, oldVM, newVM, oracle) ==
    LET fa == [subresource |-> FullAdmin, answer |-> oracle[FullAdmin]]
    IN  IF oracle[FullAdmin] = "error"
        THEN [verdict |-> "Error", queries |-> <<fa>>]
        ELSE IF oracle[FullAdmin] = "true"
        THEN [verdict |-> "Allow", queries |-> <<fa>>]
        ELSE LET q == QueryLoop(checkers, 1, oracle, <<>>, FALSE, <<fa>>)
             IN  IF q.err
                 THEN [verdict |-> "Error", queries |-> q.log]
                 ELSE LET r == CheckerLoop(checkers, 1, oldVM, newVM, q.perms)
                      IN  IF r.panic
                          THEN [verdict |-> "Panic", queries |-> q.log]
                          ELSE [verdict |-> ResidualVerdict(r.oldCopy, r.newCopy),
                                queries |-> q.log]

\* ValidateUpdate with the checker list as a parameter: the verdict and the
\* CheckPermission calls issued, for the given oracle answers.
ValidateUpdateWith(checkers, oldVM, newVM, oracle) ==
    LET fa == [subresource |-> FullAdmin, answer |-> oracle[FullAdmin]]
    IN  IF oracle[FullAdmin] = "error"
        THEN [verdict |-> "Error", queries |-> <<fa>>]
        ELSE IF oracle[FullAdmin] = "true"
        THEN [verdict |-> "Allow", queries |-> <<fa>>]
        ELSE LET q == QueryLoop(checkers, 1, oracle, <<>>, FALSE, <<fa>>)
             IN  IF q.err
                 THEN [verdict |-> "Error", queries |-> q.log]
                 ELSE IF ~q.hasAnySubresource
                 THEN [verdict |-> "Allow", queries |-> q.log]
                 ELSE LET r == CheckerLoop(checkers, 1, oldVM, newVM, q.perms)
                      IN  IF r.panic
                          THEN [verdict |-> "Panic", queries |-> q.log]
                          ELSE [verdict |-> ResidualVerdict(r.oldCopy, r.newCopy),
                                queries |-> q.log]

ValidateUpdateResult(oldVM, newVM, oracle) ==
    ValidateUpdateWith(FieldCheckers, oldVM, newVM, oracle)

\* ValidateUpdate as called by the admission handler: the type assertions and
\* the lookup of the admission request come before everything else
ValidateUpdateCall(oldO, newO, withRequest, oracle) ==
    IF ~IsVirtualMachine(newO) \/ ~IsVirtualMachine(oldO) \/ ~withRequest
    THEN [verdict |-> "Error", queries |-> <<>>]
    ELSE ValidateUpdateResult(oldO, newO, oracle)

\* ValidateCreate and ValidateDelete allow every VirtualMachine without a query
ValidateCreateResult(obj) ==
    IF ~IsVirtualMachine(obj)
    THEN [verdict |-> "Error", queries |-> <<>>]
    ELSE [verdict |-> "Allow", queries |-> <<>>]

\* ValidateDeleteResult asking for full-admin before it allows the deletion
ValidateDeleteResult_Queried(obj) ==
    IF ~IsVirtualMachine(obj)
    THEN [verdict |-> "Error", queries |-> <<>>]
    ELSE [verdict |-> "Allow",
          queries |-> << [subresource |-> FullAdmin, answer |-> "true"] >>]

ValidateDeleteResult(obj) ==
    IF ~IsVirtualMachine(obj)
    THEN [verdict |-> "Error", queries |-> <<>>]
    ELSE [verdict |-> "Allow", queries |-> <<>>]

-----------------------------------------------------------------------------
(* The VirtualMachine objects of the explored requests *)

ZeroMeta ==
    [Name |-> "test-vm", Namespace |-> "default",
     Labels |-> 0, Annotations |-> 0, Finalizers |-> 0,
     ResourceVersion |-> 0, Generation |-> 0, ManagedFields |-> 0, SelfLink |-> 0,
     UID |-> 0, CreationTimestamp |-> 0, DeletionTimestamp |-> 0,
     DeletionGracePeriodSeconds |-> 0]

\* metadata of an object as stored by the API server
StoredMeta ==
    [ZeroMeta EXCEPT !.ResourceVersion = 1, !.Generation = 1, !.ManagedFields = 1,
                     !.UID = 1, !.CreationTimestamp = 1]

ZeroDevices ==
    [Disks |-> <<>>, Filesystems |-> <<>>, Interfaces |-> <<>>, GPUs |-> <<>>,
     HostDevices |-> <<>>, Watchdog |-> 0, TPM |-> 0, Inputs |-> <<>>]

ZeroTemplate ==
    [Spec |-> [Volumes |-> <<>>, Networks |-> <<>>,
               Domain |-> [CPU |-> 0, Resources |-> 0, Memory |-> 0,
                           Devices |-> ZeroDevices]]]

ZeroVM ==
    [ObjectMeta |-> ZeroMeta,
     Spec |-> [Running |-> 0, RunStrategy |-> 0, DataVolumeTemplates |-> <<>>,
               Template |-> <<>>]]

PlainVolume(name) ==
    [Name |-> name, DataVolume |-> <<>>, PersistentVolumeClaim |-> <<>>]

DataVolumeVolume(name, dv, hotpluggable) ==
    [Name |-> name, DataVolume |-> << [Name |-> dv, Hotpluggable |-> hotpluggable] >>,
     PersistentVolumeClaim |-> <<>>]

PVCVolume(name, claim, hotpluggable) ==
    [Name |-> name, DataVolume |-> <<>>,
     PersistentVolumeClaim |-> << [Name |-> claim, Hotpluggable |-> hotpluggable] >>]

PlainDisk(name) == [Name |-> name, CDRom |-> <<>>]

CdromDisk(name) == [Name |-> name, CDRom |-> << [Bus |-> "sata"] >>]

\* a VM without a template (as in the lifecycle checker tests)
BareVM == [ZeroVM EXCEPT !.ObjectMeta = StoredMeta]

\* the base VM of the ValidateUpdate tests: CPU with 2 cores, disk1, volume1
DiskVM ==
    [BareVM EXCEPT !.Spec.Template =
        << [ZeroTemplate EXCEPT !.Spec.Volumes = << PlainVolume("volume1") >>,
                                !.Spec.Domain.CPU = 2,
                                !.Spec.Domain.Devices.Disks = << PlainDisk("disk1") >>] >>]

\* the same with an empty CD-ROM drive cdrom1
CdromVM ==
    [DiskVM EXCEPT !.Spec.Template[1].Spec.Domain.Devices.Disks = @ \o << CdromDisk("cdrom1") >>]

\* the same with hotpluggable media in the drive
CdromHotVM ==
    [CdromVM EXCEPT !.Spec.Template[1].Spec.Volumes =
                        @ \o << DataVolumeVolume("cdrom1", "iso1", TRUE) >>]

\* the same with non-hotpluggable media in the drive
CdromColdVM ==
    [CdromVM EXCEPT !.Spec.Template[1].Spec.Volumes =
                        @ \o << DataVolumeVolume("cdrom1", "iso1", FALSE) >>]

BaseVMs == { BareVM, DiskVM, CdromVM, CdromHotVM, CdromColdVM }

Names(s) == { s[i].Name : i \in 1..Len(s) }

Without(s, name) ==
    LET Keep(x) == x.Name # name IN SelectSeq(s, Keep)

SwapDataVolume(v) ==
    IF v.Name = "cdrom1" /\ v.DataVolume # <<>>
    THEN [v EXCEPT !.DataVolume[1].Name = "iso2"] ELSE v

ToggleHotpluggable(v) ==
    IF v.Name = "cdrom1" /\ v.DataVolume # <<>>
    THEN [v EXCEPT !.DataVolume[1].Hotpluggable = ~@] ELSE v

MetaEdits == { "Labels", "Annotations", "Finalizers", "SystemMetadata" }

SpecEdits == { "Running", "RunStrategy", "DataVolumeTemplates", "DropTemplate", "AddTemplate" }

TemplateEdits ==
    { "Interfaces", "Networks", "CPU", "Resources", "GPUs", "HostDevices", "Watchdog",
      "TPM", "Inputs", "Memory", "Filesystems", "AddVolume", "RemoveVolume", "AddDisk",
      "AddCdromDisk", "RemoveCdromDisk", "InjectMedia", "InjectMediaPVC", "EjectMedia",
      "SwapMedia", "ToggleHotpluggable" }

Edits == MetaEdits \cup SpecEdits \cup TemplateEdits

\* the change that edit e makes to the template spec t
EditTemplateSpec(e, t) ==
    CASE e = "Interfaces"  -> [t EXCEPT !.Domain.Devices.Interfaces = << "eth1" >>]
      [] e = "Networks"    -> [t EXCEPT !.Networks = << "secondary" >>]
      [] e = "CPU"         -> [t EXCEPT !.Domain.CPU = 4]
      [] e = "Resources"   -> [t EXCEPT !.Domain.Resources = 1]
      [] e = "GPUs"        -> [t EXCEPT !.Domain.Devices.GPUs = << "gpu1" >>]
      [] e = "HostDevices" -> [t EXCEPT !.Domain.Devices.HostDevices = << "dev1" >>]
      [] e = "Watchdog"    -> [t EXCEPT !.Domain.Devices.Watchdog = 1]
      [] e = "TPM"         -> [t EXCEPT !.Domain.Devices.TPM = 1]
      [] e = "Inputs"      -> [t EXCEPT !.Domain.Devices.Inputs = << "tablet" >>]
      [] e = "Memory"      -> [t EXCEPT !.Domain.Memory = 1]
      [] e = "Filesystems" -> [t EXCEPT !.Domain.Devices.Filesystems = << "shared-fs" >>]
      [] e = "AddVolume"   -> [t EXCEPT !.Volumes = Without(@, "volume2") \o << PlainVolume("volume2") >>]
      [] e = "RemoveVolume" -> [t EXCEPT !.Volumes = Without(@, "volume1")]
      [] e = "AddDisk"     -> [t EXCEPT !.Domain.Devices.Disks =
                                            Without(@, "disk2") \o << PlainDisk("disk2") >>]
      [] e = "AddCdromDisk" -> [t EXCEPT !.Domain.Devices.Disks =
                                            Without(@, "cdrom2") \o << CdromDisk("cdrom2") >>]
      [] e = "RemoveCdromDisk" -> [t EXCEPT !.Domain.Devices.Disks = Without(@, "cdrom1")]
      [] e = "InjectMedia" -> [t EXCEPT !.Volumes =
                                  IF "cdrom1" \in Names(@) THEN @
                                  ELSE @ \o << DataVolumeVolume("cdrom1", "iso1", TRUE) >>]
      [] e = "InjectMediaPVC" -> [t EXCEPT !.Volumes =
                                  IF "cdrom1" \in Names(@) THEN @
                                  ELSE @ \o << PVCVolume("cdrom1", "iso1", TRUE) >>]
      [] e = "EjectMedia"  -> [t EXCEPT !.Volumes = Without(@, "cdrom1")]
      [] e = "SwapMedia"   -> [t EXCEPT !.Volumes = [i \in DOMAIN @ |-> SwapDataVolume(@[i])]]
      [] e = "ToggleHotpluggable" ->
                              [t EXCEPT !.Volumes = [i \in DOMAIN @ |-> ToggleHotpluggable(@[i])]]

\* the VM that results from applying edit e to vm
Edit(e, vm) ==
    CASE e = "Labels"       -> [vm EXCEPT !.ObjectMeta.Labels = 1]
      [] e = "Annotations"  -> [vm EXCEPT !.ObjectMeta.Annotations = 1]
      [] e = "Finalizers"   -> [vm EXCEPT !.ObjectMeta.Finalizers = 1]
      [] e = "SystemMetadata" ->
            [vm EXCEPT !.ObjectMeta.ResourceVersion = 2, !.ObjectMeta.Generation = 2,
                       !.ObjectMeta.ManagedFields = 2, !.ObjectMeta.SelfLink = 1,
                       !.ObjectMeta.UID = 2, !.ObjectMeta.CreationTimestamp = 2,
                       !.ObjectMeta.DeletionTimestamp = 1,
                       !.ObjectMeta.DeletionGracePeriodSeconds = 1]
      [] e = "Running"      -> [vm EXCEPT !.Spec.Running = 1]
      [] e = "RunStrategy"  -> [vm EXCEPT !.Spec.RunStrategy = 1]
      [] e = "DataVolumeTemplates" -> [vm EXCEPT !.Spec.DataVolumeTemplates = << "dvt" >>]
      [] e = "DropTemplate" -> [vm EXCEPT !.Spec.Template = <<>>]
      [] e = "AddTemplate"  -> IF HasTemplate(vm) THEN vm
                               ELSE [vm EXCEPT !.Spec.Template = << ZeroTemplate >>]
      [] e \in TemplateEdits ->
            IF HasTemplate(vm)
            THEN [vm EXCEPT !.Spec.Template[1].Spec = EditTemplateSpec(e, @)]
            ELSE vm

RECURSIVE ApplyEdits(_, _)
ApplyEdits(es, vm) ==
    IF es = <<>> THEN vm ELSE ApplyEdits(Tail(es), Edit(Head(es), vm))

EditSeqs == UNION { [1..n -> Edits] : n \in 0..MaxEdits }

\* the (old, new) pairs of the explored update requests
UpdateRequests ==
    { [old |-> b, new |-> ApplyEdits(es, b)] : b \in BaseVMs, es \in EditSeqs }

\* calls in which an object is of another type or the context is empty
MalformedCalls ==
    { c \in [old : { DiskVM, NotAVirtualMachine }, new : { DiskVM, NotAVirtualMachine },
              hasRequest : BOOLEAN] :
        ~IsVirtualMachine(c.old) \/ ~IsVirtualMachine(c.new) \/ ~c.hasRequest }

\* the ValidateUpdate calls explored
UpdateCalls ==
    { [old |-> r.old, new |-> r.new, hasRequest |-> TRUE] : r \in UpdateRequests }
        \cup MalformedCalls

\* The oracle answers of one request.  CheckPermission is never called after
\* the first error, so the answers that would follow an error are fixed to
\* "false" instead of being enumerated.
Stops(oracle, i) ==
    \/ oracle[FullAdmin] = "error"
    \/ \E j \in 1..(i - 1) : oracle[Subresource(FieldCheckers[j])] = "error"

Oracles ==
    { oracle \in [AllSubresources -> Answers] :
        \A i \in 1..Len(FieldCheckers) :
            Stops(oracle, i) => oracle[Subresource(FieldCheckers[i])] = "false" }

-----------------------------------------------------------------------------
(* The admission calls *)

Init ==
    /\ phase = "idle"
    /\ op = "NONE"
    /\ oldObj = ZeroVM
    /\ newObj = ZeroVM
    /\ hasRequest = FALSE
    /\ queries = <<>>
    /\ verdict = "none"
    /\ calls = <<>>

\* the API server calls the webhook for an UPDATE of a VirtualMachine
AdmitUpdate ==
    /\ phase = "idle"
    /\ \E c \in UpdateCalls :
          /\ oldObj' = c.old
          /\ newObj' = c.new
          /\ hasRequest' = c.hasRequest
    /\ phase' = "pending"
    /\ op' = "UPDATE"
    /\ UNCHANGED <<queries, verdict, calls>>

AdmitCreate ==
    /\ phase = "idle"
    /\ \E obj \in BaseVMs \cup { NotAVirtualMachine } : newObj' = obj
    /\ hasRequest' \in BOOLEAN
    /\ phase' = "pending"
    /\ op' = "CREATE"
    /\ UNCHANGED <<oldObj, queries, verdict, calls>>

AdmitDelete ==
    /\ phase = "idle"
    /\ \E obj \in BaseVMs \cup { NotAVirtualMachine } : oldObj' = obj
    /\ hasRequest' \in BOOLEAN
    /\ phase' = "pending"
    /\ op' = "DELETE"
    /\ UNCHANGED <<newObj, queries, verdict, calls>>

\* The oracle as far as it has answered: the answers of log, and no answer
\* yet to any other CheckPermission call.  A call that has not returned cuts
\* the run off like a failed one, so the run computed against this oracle
\* has asked one question more than log holds exactly when ValidateUpdate is
\* waiting in that CheckPermission call.
AnsweredSoFar(log) ==
    [s \in AllSubresources |->
        IF \E k \in 1..Len(log) : log[k].subresource = s
        THEN log[CHOOSE k \in 1..Len(log) : log[k].subresource = s].answer
        ELSE "error"]

\* ValidateUpdate followed from the call to the point it reaches with the
\* answers of log: it has returned, or it waits in CheckPermission for the
\* subresource asks
RunWith(oldO, newO, withRequest, log) ==
    LET r == ValidateUpdateCall(oldO, newO, withRequest, AnsweredSoFar(log))
    IN  IF Len(r.queries) <= Len(log)
        THEN [returned |-> TRUE, verdict |-> r.verdict, queries |-> r.queries]
        ELSE [returned |-> FALSE, asks |-> r.queries[Len(log) + 1].subresource]

\* ValidateUpdate is called and runs up to its first CheckPermission call,
\* where it waits for the API server, or returns before it
ValidateUpdate ==
    /\ phase = "pending"
    /\ op = "UPDATE"
    /\ \E r \in { RunWith(oldObj, newObj, hasRequest, <<>>) } :
          IF r.returned
          THEN /\ phase' = "done"
               /\ verdict' = r.verdict
               /\ queries' = r.queries
          ELSE /\ phase' = "waiting"
               /\ UNCHANGED <<verdict, queries>>
    /\ UNCHANGED <<op, oldObj, newObj, hasRequest, calls>>

\* The API server answers the SubjectAccessReview, with whatever the RBAC
\* state is at that moment, and ValidateUpdate runs on to its next
\* CheckPermission call or to its return.  (The one-element sets bind the
\* subresource asked for, the answers so far and the run once each.)
CheckPermissionReturns ==
    /\ phase = "waiting"
    /\ op = "UPDATE"
    /\ \E sub \in { RunWith(oldObj, newObj, hasRequest, queries).asks }, ans \in Answers :
          \E log \in { Append(queries, [subresource |-> sub, answer |-> ans]) } :
              \E r \in { RunWith(oldObj, newObj, hasRequest, log) } :
                  IF r.returned
                  THEN /\ phase' = "done"
                       /\ verdict' = r.verdict
                       /\ queries' = r.queries
                  ELSE /\ phase' = "waiting"
                       /\ queries' = log
                       /\ UNCHANGED verdict
    /\ UNCHANGED <<op, oldObj, newObj, hasRequest, calls>>

ValidateCreate ==
    /\ phase = "pending"
    /\ op = "CREATE"
    /\ LET r == ValidateCreateResult(newObj)
       IN  /\ verdict' = r.verdict
           /\ queries' = r.queries
    /\ phase' = "done"
    /\ UNCHANGED <<op, oldObj, newObj, hasRequest, calls>>

ValidateDelete ==
    /\ phase = "pending"
    /\ op = "DELETE"
    /\ LET r == ValidateDeleteResult(oldObj)
       IN  /\ verdict' = r.verdict
           /\ queries' = r.queries
    /\ phase' = "done"
    /\ UNCHANGED <<op, oldObj, newObj, hasRequest, calls>>

\* the verdict is returned; nothing of the call is kept
Respond ==
    /\ phase = "done"
    /\ phase' = "idle"
    /\ op' = "NONE"
    /\ oldObj' = ZeroVM
    /\ newObj' = ZeroVM
    /\ hasRequest' = FALSE
    /\ queries' = <<>>
    /\ verdict' = "none"
    /\ UNCHANGED calls

Next ==
    \/ AdmitUpdate
    \/ AdmitCreate
    \/ AdmitDelete
    \/ ValidateUpdate
    \/ CheckPermissionReturns
    \/ ValidateCreate
    \/ ValidateDelete
    \/ Respond

Spec == Init /\ [][Next]_vars

TypeOK ==
    /\ phase \in { "idle", "pending", "waiting", "done" }
    /\ op \in { "NONE", "CREATE", "UPDATE", "DELETE" }
    /\ verdict \in { "none", "Allow", "DenyMetadata", "DenySpec", "Error", "Panic" }
    /\ hasRequest \in BOOLEAN

-----------------------------------------------------------------------------
(* Reading the state of a finished ValidateUpdate call *)

UpdateDone == phase = "done" /\ op = "UPDATE"

\* CheckPermission was called for sub and returned ans
Answered(sub, ans) ==
    \E i \in 1..Len(queries) : queries[i] = [subresource |-> sub, answer |-> ans]

\* the subresources of the checkers for which CheckPermission returned true
Held == { Subresource(c) : c \in { d \in CheckerNames : Answered(Subresource(d), "true") } }

\* full-admin was denied and every checker's subresource was queried without error
Granular ==
    /\ Answered(FullAdmin, "false")
    /\ \A c \in CheckerNames :
          Answered(Subresource(c), "true") \/ Answered(Subresource(c), "false")

\* fields of the metadata that normalizeSystemMetadata leaves alone
UserMeta(vm) ==
    [f \in (DOMAIN vm.ObjectMeta) \ SystemMetadataFields |-> vm.ObjectMeta[f]]

-----------------------------------------------------------------------------
(* Claims *)

\* C1: whenever CheckPermission answers true for virtualmachines/full-admin,
\* ValidateUpdate allows the update, whatever the old and new objects are
\* and whatever the oracle would answer for the granular subresources.
C1_FullAdminBypass ==
    (UpdateDone /\ Answered(FullAdmin, "true")) => verdict = "Allow"

\* a full-admin update that changes labels and a spec field was allowed
C1_Witness ==
    /\ UpdateDone
    /\ Answered(FullAdmin, "true")
    /\ oldObj.ObjectMeta.Labels # newObj.ObjectMeta.Labels
    /\ oldObj.Spec # newObj.Spec
    /\ verdict = "Allow"

\* C2: when CheckPermission answers false for full-admin and false for the
\* subresource of every checker, ValidateUpdate allows the update, whatever
\* the difference between the old and the new object.
C2_NoGrantAllows ==
    (UpdateDone /\ Granular /\ Held = {}) => verdict = "Allow"

\* an update by an actor without any grant that changes labels and a spec
\* field outside every checker's fields was allowed
C2_Witness ==
    /\ UpdateDone
    /\ Granular
    /\ Held = {}
    /\ oldObj.ObjectMeta.Labels # newObj.ObjectMeta.Labels
    /\ HasTemplate(oldObj) /\ HasTemplate(newObj)
    /\ TSpec(oldObj).Domain.Memory # TSpec(newObj).Domain.Memory
    /\ verdict = "Allow"

\* C3: when any CheckPermission call that ValidateUpdate issues fails (the
\* full-admin query, or a checker's query after full-admin was denied), the
\* outcome is Error, neither Allow nor Deny, whatever the objects are and
\* whatever the earlier queries answered.
C3_OracleErrorAborts ==
    (UpdateDone /\ \E s \in AllSubresources : Answered(s, "error")) => verdict = "Error"

\* a checker's query failed after an earlier checker's query had answered
\* true, for an update that changes the spec, and the outcome was Error
C3_Witness ==
    /\ UpdateDone
    /\ Answered(Subresource("network"), "true")
    /\ Answered(Subresource("storage"), "error")
    /\ oldObj.Spec # newObj.Spec
    /\ verdict = "Error"

-----------------------------------------------------------------------------
(* The field categories as documented, for stating claims about them *)

\* the template spec of vm, the zero value standing for an absent template
TmplSpec(vm) == IF HasTemplate(vm) THEN TSpec(vm) ELSE ZeroTemplate.Spec

\* the CD-ROM disks of vm
CdromDisksOf(vm) ==
    LET IsCdrom(disk) == disk.CDRom # <<>>
    IN  SelectSeq(TmplSpec(vm).Domain.Devices.Disks, IsCdrom)

\* volume v of vm is CD-ROM media: hotpluggable and named like a CD-ROM disk of vm
IsCdromMedia(vm, v) ==
    /\ v.Name \in Names(CdromDisksOf(vm))
    /\ \/ v.DataVolume # <<>> /\ v.DataVolume[1].Hotpluggable
       \/ v.PersistentVolumeClaim # <<>> /\ v.PersistentVolumeClaim[1].Hotpluggable

CdromMediaOf(vm) ==
    LET Media(v) == IsCdromMedia(vm, v) IN SelectSeq(TmplSpec(vm).Volumes, Media)

\* the volumes of vm that are not CD-ROM media
OtherVolumesOf(vm) ==
    LET Other(v) == ~IsCdromMedia(vm, v) IN SelectSeq(TmplSpec(vm).Volumes, Other)

\* the fields of vm that belong to checker c
Footprint(c, vm) ==
    LET t == TmplSpec(vm)
        d == t.Domain.Devices
    IN  CASE c = "storage"   -> <<t.Volumes, d.Disks, d.Filesystems>>
          [] c = "cdrom"     -> <<CdromMediaOf(vm)>>
          [] c = "network"   -> <<d.Interfaces, t.Networks>>
          [] c = "compute"   -> <<t.Domain.CPU, t.Domain.Resources>>
          [] c = "devices"   -> <<d.GPUs, d.HostDevices, d.Watchdog, d.TPM, d.Inputs>>
          [] c = "lifecycle" -> <<vm.Spec.Running, vm.Spec.RunStrategy>>

\* everything of vm that does not belong to checker c, metadata included
Outside(c, vm) ==
    LET t == TmplSpec(vm)
        d == t.Domain.Devices
        rest == <<vm.ObjectMeta, HasTemplate(vm), vm.Spec.DataVolumeTemplates, t.Domain.Memory>>
        others == [x \in CheckerNames \ { c, "cdrom", "storage" } |-> Footprint(x, vm)]
    IN  CASE c = "storage" -> <<rest, others>>
          [] c = "cdrom"   -> <<rest, others, OtherVolumesOf(vm), d.Disks, d.Filesystems>>
          [] OTHER         -> <<rest, others, Footprint("storage", vm)>>

\* the checkers whose fields differ between the old and the new object
ChangedFootprints ==
    { c \in CheckerNames : Footprint(c, oldObj) # Footprint(c, newObj) }

\* the checkers whose fields include those of checker c
Covering(c) == IF c = "cdrom" THEN { "cdrom", "storage" } ELSE { c }

\* the oracle that denies full-admin and grants exactly the subresources in held
GrantOracle(held) ==
    [s \in AllSubresources |-> IF s \in held THEN "true" ELSE "false"]

Denied == verdict \in { "DenySpec", "DenyMetadata" }

BothTemplates == HasTemplate(oldObj) /\ HasTemplate(newObj)

-----------------------------------------------------------------------------

\* C4: for an actor without full-admin who holds at least one granular
\* subresource, an update that leaves the metadata identical and changes the
\* fields of exactly one checker, where the actor holds neither that checker's
\* subresource nor that of a checker covering it, is denied for a spec violation.
C4_UnauthorizedCategoryDenied ==
    ( /\ UpdateDone /\ Granular /\ Held # {}
      /\ oldObj.ObjectMeta = newObj.ObjectMeta
      /\ \E c \in CheckerNames :
            /\ ChangedFootprints = { c }
            /\ \A d \in Covering(c) : Subresource(d) \notin Held )
    => verdict = "DenySpec"

\* C5: for each of the six checkers, an update that differs from the old
\* object only in that checker's fields (metadata and all other spec fields
\* identical), by an actor who holds that checker's subresource and no other,
\* is allowed.
C5_SingleCategoryAllowed ==
    \A c \in CheckerNames :
        ( /\ UpdateDone /\ Granular /\ Held = { Subresource(c) }
          /\ Footprint(c, oldObj) # Footprint(c, newObj)
          /\ Outside(c, oldObj) = Outside(c, newObj) )
        => verdict = "Allow"

\* C6: for every old/new pair and every assignment of the other four
\* subresources, ValidateUpdate gives the same verdict to an actor holding
\* cdrom-user and storage-admin as to the actor holding storage-admin
\* without cdrom-user.
C6_CdromAddsNothingToStorage ==
    (UpdateDone /\ Granular /\ Subresource("storage") \in Held)
    => LET cdrom == Subresource("cdrom")
           other == IF cdrom \in Held THEN Held \ { cdrom } ELSE Held \cup { cdrom }
       IN  verdict = ValidateUpdateResult(oldObj, newObj, GrantOracle(other)).verdict

\* a CD-ROM media change by an actor holding both subresources was allowed
C6_Witness ==
    /\ UpdateDone /\ Granular
    /\ Held = { Subresource("cdrom"), Subresource("storage") }
    /\ BothTemplates
    /\ CdromDisksOf(oldObj) = CdromDisksOf(newObj)
    /\ CdromMediaOf(oldObj) # CdromMediaOf(newObj)
    /\ verdict = "Allow"

\* the new volumes are the old ones with CD-ROM media put in at one place
IsInject(oldVM, newVM) ==
    LET ov == TmplSpec(oldVM).Volumes
        nv == TmplSpec(newVM).Volumes
    IN  \E i \in 1..Len(nv) :
          /\ IsCdromMedia(newVM, nv[i])
          /\ ov = SubSeq(nv, 1, i - 1) \o SubSeq(nv, i + 1, Len(nv))

\* the new volumes are the old ones with CD-ROM media taken out at one place
IsEject(oldVM, newVM) ==
    LET ov == TmplSpec(oldVM).Volumes
        nv == TmplSpec(newVM).Volumes
    IN  \E i \in 1..Len(ov) :
          /\ IsCdromMedia(oldVM, ov[i])
          /\ nv = SubSeq(ov, 1, i - 1) \o SubSeq(ov, i + 1, Len(ov))

\* the new volumes are the old ones with CD-ROM media replaced by other media
IsSwap(oldVM, newVM) ==
    LET ov == TmplSpec(oldVM).Volumes
        nv == TmplSpec(newVM).Volumes
    IN  /\ Len(ov) = Len(nv)
        /\ \E i \in 1..Len(ov) :
              /\ ov[i] # nv[i]
              /\ ov[i].Name = nv[i].Name
              /\ IsCdromMedia(oldVM, ov[i])
              /\ IsCdromMedia(newVM, nv[i])
              /\ \A j \in (1..Len(ov)) \ { i } : ov[j] = nv[j]

\* the old and new object are identical but for their volumes
OnlyVolumesDiffer ==
    /\ BothTemplates
    /\ oldObj.ObjectMeta = newObj.ObjectMeta
    /\ [oldObj EXCEPT !.Spec.Template[1].Spec.Volumes = <<>>]
         = [newObj EXCEPT !.Spec.Template[1].Spec.Volumes = <<>>]

\* C7: for an actor holding only cdrom-user, an update whose only difference
\* is the inject, eject or swap of a hotpluggable volume bound by name to a
\* CD-ROM disk, the disks being identical in old and new, is allowed.
C7_CdromMediaChangeAllowed ==
    ( /\ UpdateDone /\ Granular /\ Held = { Subresource("cdrom") }
      /\ OnlyVolumesDiffer
      /\ IsInject(oldObj, newObj) \/ IsEject(oldObj, newObj) \/ IsSwap(oldObj, newObj) )
    => verdict = "Allow"

\* media was swapped in an existing CD-ROM drive by an actor holding only
\* cdrom-user, and the update was allowed
C7_Witness ==
    /\ UpdateDone /\ Granular /\ Held = { Subresource("cdrom") }
    /\ OnlyVolumesDiffer
    /\ IsSwap(oldObj, newObj)
    /\ verdict = "Allow"

\* C8: for an actor holding only cdrom-user, every update that adds or
\* removes a CD-ROM disk is denied, also when it changes CD-ROM media.
C8_CdromDiskChangeDenied ==
    ( /\ UpdateDone /\ Granular /\ Held = { Subresource("cdrom") }
      /\ Names(CdromDisksOf(oldObj)) # Names(CdromDisksOf(newObj)) )
    => Denied

\* C9: for an actor holding only cdrom-user, every update that adds, removes
\* or alters a disk, a filesystem, or a volume that is not a hotpluggable
\* volume bound by name to a CD-ROM disk is denied.  Stated for objects that
\* both carry a template.
C9_CdromUserOtherStorageDenied ==
    ( /\ UpdateDone /\ Granular /\ Held = { Subresource("cdrom") }
      /\ BothTemplates
      /\ \/ TSpec(oldObj).Domain.Devices.Disks # TSpec(newObj).Domain.Devices.Disks
         \/ TSpec(oldObj).Domain.Devices.Filesystems # TSpec(newObj).Domain.Devices.Filesystems
         \/ OtherVolumesOf(oldObj) # OtherVolumesOf(newObj) )
    => Denied

\* C10: every update that is allowed for an actor holding only cdrom-user is
\* also allowed for an actor holding only storage-admin.
C10_StorageCoversCdrom ==
    (UpdateDone /\ Granular /\ Held = { Subresource("cdrom") } /\ verdict = "Allow")
    => ValidateUpdateResult(oldObj, newObj,
                            GrantOracle({ Subresource("storage") })).verdict = "Allow"

\* a CD-ROM media change was allowed for an actor holding only cdrom-user
C10_Witness ==
    /\ UpdateDone /\ Granular /\ Held = { Subresource("cdrom") }
    /\ CdromMediaOf(oldObj) # CdromMediaOf(newObj)
    /\ verdict = "Allow"

-----------------------------------------------------------------------------
(* Metadata *)

\* subresourcePermissions as filled by the queries of the finished call
HeldPerms == [s \in AllSubresources \ { FullAdmin } |-> s \in Held]

\* the working copies as the checker loop leaves them for the finished call
Residual == CheckerLoop(FieldCheckers, 1, oldObj, newObj, HeldPerms)

\* C11: for an actor without full-admin who holds at least one granular
\* subresource, every update in which the old and the new object differ in
\* metadata other than the eight system-managed fields is denied for a
\* metadata violation, whichever granular subresources are held.
C11_UserMetadataChangeDenied ==
    (UpdateDone /\ Granular /\ Held # {} /\ UserMeta(oldObj) # UserMeta(newObj))
    => verdict = "DenyMetadata"

\* C12: whenever the working copies, after the checker loop and the metadata
\* normalization, differ both in metadata and in spec, the update is denied
\* for a metadata violation; it is denied for a spec violation only when the
\* residual metadata is equal and the residual spec differs.
C12_MetadataPriority ==
    (UpdateDone /\ Granular /\ Held # {})
    => LET r == Residual
           metas == normalizeSystemMetadata(r.oldCopy.ObjectMeta, r.newCopy.ObjectMeta)
           metadataDiff == metas[1] # metas[2]
           specDiff == r.oldCopy.Spec # r.newCopy.Spec
       IN  ~r.panic
           => /\ (metadataDiff /\ specDiff) => verdict = "DenyMetadata"
              /\ verdict = "DenySpec" => (~metadataDiff /\ specDiff)

\* an update that changes labels and a CPU the actor may not change was
\* denied for a metadata violation
C12_Witness ==
    /\ UpdateDone /\ Granular /\ Held = { Subresource("storage") }
    /\ ~Residual.panic
    /\ Residual.oldCopy.Spec # Residual.newCopy.Spec
    /\ oldObj.ObjectMeta.Labels # newObj.ObjectMeta.Labels
    /\ verdict = "DenyMetadata"

\* the eight system-managed fields of the metadata of vm
SystemMeta(vm) == [f \in SystemMetadataFields |-> vm.ObjectMeta[f]]

\* C13: for an actor holding any set of granular subresources, an update in
\* which the old and the new object differ only in the eight system-managed
\* metadata fields is allowed.
C13_SystemMetadataOnlyAllowed ==
    ( /\ UpdateDone /\ Granular
      /\ SystemMeta(oldObj) # SystemMeta(newObj)
      /\ UserMeta(oldObj) = UserMeta(newObj)
      /\ oldObj.Spec = newObj.Spec )
    => verdict = "Allow"

-----------------------------------------------------------------------------
(* Several subresources *)

\* the fields that checker c alone answers for: for storage the disks, the
\* filesystems and the volumes that are not CD-ROM media
OwnFields(c, vm) ==
    IF c = "storage"
    THEN <<OtherVolumesOf(vm), TmplSpec(vm).Domain.Devices.Disks,
           TmplSpec(vm).Domain.Devices.Filesystems>>
    ELSE Footprint(c, vm)

\* the checkers whose own fields differ between the old and the new object
ChangedCategories ==
    { c \in CheckerNames : OwnFields(c, oldObj) # OwnFields(c, newObj) }

\* the actor holds the subresource of checker c or of a checker covering it
Covered(c) == \E d \in Covering(c) : Subresource(d) \in Held

\* the spec fields that belong to no checker are the same in old and new
NoUncheckedChange ==
    /\ HasTemplate(oldObj) = HasTemplate(newObj)
    /\ oldObj.Spec.DataVolumeTemplates = newObj.Spec.DataVolumeTemplates
    /\ TmplSpec(oldObj).Domain.Memory = TmplSpec(newObj).Domain.Memory

\* C14: for an actor holding several granular subresources, an update that
\* changes the fields of any number of checkers, with identical user-managed
\* metadata and no change of a spec field outside them, is allowed when every
\* changed category is covered by a held subresource, and denied as soon as
\* one changed category is not covered.
C14_CombinedPermissions ==
    ( /\ UpdateDone /\ Granular /\ Cardinality(Held) >= 2
      /\ UserMeta(oldObj) = UserMeta(newObj)
      /\ NoUncheckedChange
      /\ ChangedCategories # {} )
    => IF \A c \in ChangedCategories : Covered(c) THEN verdict = "Allow" ELSE Denied

-----------------------------------------------------------------------------
(* Create and delete *)

\* C17: ValidateCreate and ValidateDelete allow every VirtualMachine object
\* without calling CheckPermission, and return an error only when the object
\* is not a VirtualMachine.
C17_CreateDeleteAllowed ==
    (phase = "done" /\ op \in { "CREATE", "DELETE" })
    => LET obj == IF op = "CREATE" THEN newObj ELSE oldObj
       IN  /\ queries = <<>>
           /\ IsVirtualMachine(obj) => verdict = "Allow"
           /\ verdict = "Error" => ~IsVirtualMachine(obj)
           /\ verdict \in { "Allow", "Error" }

\* the deletion of a VirtualMachine with disks and volumes was allowed
\* without a query
C17_Witness ==
    /\ phase = "done" /\ op = "DELETE"
    /\ IsVirtualMachine(oldObj) /\ HasTemplate(oldObj)
    /\ queries = <<>>
    /\ verdict = "Allow"

-----------------------------------------------------------------------------
(* ValidateUpdate statement by statement *)

\* the variables of the admission calls taken as a whole
atomicVars == <<phase, op, oldObj, newObj, hasRequest, queries, verdict>>

\* the objects a call can reach: the two it is handed and the two DeepCopy makes
Objects == { "oldObj", "newObj", "oldCopy", "newCopy" }

\* the locals of a call that has not started.  mem holds the objects, oldRef
\* and newRef are the objects the pointers oldCopy and newCopy refer to, oldIn
\* and newIn keep the objects as they were handed in.  perms is the map
\* subresourcePermissions, read as false where it has no entry.
IdleCall ==
    [pc |-> "idle", oldIn |-> ZeroVM, newIn |-> ZeroVM, hasRequest |-> FALSE,
     oracle |-> [s \in AllSubresources |-> "false"],
     mem |-> [o \in Objects |-> ZeroVM], oldRef |-> "oldObj", newRef |-> "newObj",
     perms |-> [s \in AllSubresources \ { FullAdmin } |-> FALSE],
     hasAnySubresource |-> FALSE, idx |-> 0,
     log |-> <<>>, evaluated |-> <<>>, normalized |-> FALSE, verdict |-> "none"]

\* return from ValidateUpdate
Finish(c, v) == [c EXCEPT !.pc = "done", !.verdict = v]

\* EntryOf without the lookup of the admission request
EntryOf_NoRequestCheck(c) ==
    IF ~IsVirtualMachine(c.mem["newObj"]) \/ ~IsVirtualMachine(c.mem["oldObj"])
    THEN Finish(c, "Error")
    ELSE [c EXCEPT !.pc = "fullAdmin"]

\* the type assertions and admission.RequestFromContext
EntryOf(c) ==
    IF ~IsVirtualMachine(c.mem["newObj"]) \/ ~IsVirtualMachine(c.mem["oldObj"])
          \/ ~c.hasRequest
    THEN Finish(c, "Error")
    ELSE [c EXCEPT !.pc = "fullAdmin"]

\* step 1: the full-admin query
FullAdminOf(c) ==
    LET ans == c.oracle[FullAdmin]
        d == [c EXCEPT !.log = Append(@, [subresource |-> FullAdmin, answer |-> ans])]
    IN  CASE ans = "error" -> Finish(d, "Error")
          [] ans = "true"  -> Finish(d, "Allow")
          [] OTHER         -> [d EXCEPT !.pc = "query", !.idx = 1]

\* QueryOf leaving the loop at the first subresource that is granted
QueryOf_StopAtFirstGrant(c) ==
    LET sub == Subresource(FieldCheckers[c.idx])
        ans == c.oracle[sub]
        d == [c EXCEPT !.log = Append(@, [subresource |-> sub, answer |-> ans])]
    IN  IF ans = "error"
        THEN Finish(d, "Error")
        ELSE [d EXCEPT !.perms = [@ EXCEPT ![sub] = (ans = "true")],
                       !.hasAnySubresource = @ \/ ans = "true",
                       !.idx = IF ans = "true" THEN Len(FieldCheckers) + 1 ELSE @ + 1]

\* step 2: one iteration of the loop that queries the checkers' subresources
QueryOf(c) ==
    LET sub == Subresource(FieldCheckers[c.idx])
        ans == c.oracle[sub]
        d == [c EXCEPT !.log = Append(@, [subresource |-> sub, answer |-> ans])]
    IN  IF ans = "error"
        THEN Finish(d, "Error")
        ELSE [d EXCEPT !.perms = [@ EXCEPT ![sub] = (ans = "true")],
                       !.hasAnySubresource = @ \/ ans = "true",
                       !.idx = @ + 1]

\* the return for an actor without any granular subresource
OptInOf(c) ==
    IF ~c.hasAnySubresource THEN Finish(c, "Allow") ELSE [c EXCEPT !.pc = "copy"]

\* DeepCopy that hands back the object itself
DeepCopy_Alias(mem, src, dst) == [ref |-> src, mem |-> mem]

\* DeepCopy of object src: a new object dst with the same value
DeepCopy(mem, src, dst) == [ref |-> dst, mem |-> [mem EXCEPT ![dst] = mem[src]]]

\* step 3: oldCopy := oldVM.DeepCopy(); newCopy := newVM.DeepCopy()
CopyOf(c) ==
    LET a == DeepCopy(c.mem, "oldObj", "oldCopy")
        b == DeepCopy(a.mem, "newObj", "newCopy")
    IN  [c EXCEPT !.mem = b.mem, !.oldRef = a.ref, !.newRef = b.ref,
                  !.pc = "check", !.idx = 1]

\* one evaluation of HasChanged as recorded in the call
Evaluation(checker, changed, neutralized) ==
    [checker |-> checker, changed |-> changed, neutralized |-> neutralized]

\* CheckIteration returning the denial at the first change that is not permitted
CheckIteration_DenyEarly(c, perms) ==
    LET checker == FieldCheckers[c.idx]
        o == c.mem[c.oldRef]
        n == c.mem[c.newRef]
    IN  IF HasChangedPanics(checker, o, n)
        THEN [Finish(c, "Panic") EXCEPT
                 !.evaluated = Append(@, Evaluation(checker, "panic", FALSE))]
        ELSE LET changed == HasChanged(checker, o, n)
                 granted == changed /\ perms[Subresource(checker)]
                 nn == Neutralize(checker, o, n)
                 d == [c EXCEPT
                         !.evaluated = Append(@, Evaluation(checker,
                                                 IF changed THEN "true" ELSE "false",
                                                 granted)),
                         !.mem = IF granted
                                 THEN [@ EXCEPT ![c.oldRef] = nn[1], ![c.newRef] = nn[2]]
                                 ELSE @,
                         !.idx = @ + 1]
             IN  IF changed /\ ~granted THEN Finish(d, "DenySpec") ELSE d

\* CheckIteration calling HasChanged on the objects handed in
CheckIteration_OnOriginals(c, perms) ==
    LET checker == FieldCheckers[c.idx]
        o == c.mem[c.oldRef]
        n == c.mem[c.newRef]
    IN  IF HasChangedPanics(checker, c.mem["oldObj"], c.mem["newObj"])
        THEN [Finish(c, "Panic") EXCEPT
                 !.evaluated = Append(@, Evaluation(checker, "panic", FALSE))]
        ELSE LET changed == HasChanged(checker, c.mem["oldObj"], c.mem["newObj"])
                 granted == changed /\ perms[Subresource(checker)]
                 nn == Neutralize(checker, o, n)
             IN  [c EXCEPT
                     !.evaluated = Append(@, Evaluation(checker,
                                             IF changed THEN "true" ELSE "false",
                                             granted)),
                     !.mem = IF granted
                             THEN [@ EXCEPT ![c.oldRef] = nn[1], ![c.newRef] = nn[2]]
                             ELSE @,
                     !.idx = @ + 1]

\* step 3: one iteration of the loop over the checkers.  HasChanged is called
\* on the objects oldCopy and newCopy point to; perms is subresourcePermissions.
CheckIteration(c, perms) ==
    LET checker == FieldCheckers[c.idx]
        o == c.mem[c.oldRef]
        n == c.mem[c.newRef]
    IN  IF HasChangedPanics(checker, o, n)
        THEN [Finish(c, "Panic") EXCEPT
                 !.evaluated = Append(@, Evaluation(checker, "panic", FALSE))]
        ELSE LET changed == HasChanged(checker, o, n)
                 granted == changed /\ perms[Subresource(checker)]
                 nn == Neutralize(checker, o, n)
             IN  [c EXCEPT
                     !.evaluated = Append(@, Evaluation(checker,
                                             IF changed THEN "true" ELSE "false",
                                             granted)),
                     !.mem = IF granted
                             THEN [@ EXCEPT ![c.oldRef] = nn[1], ![c.newRef] = nn[2]]
                             ELSE @,
                     !.idx = @ + 1]

\* step 4: normalizeSystemMetadata(&oldCopy.ObjectMeta, &newCopy.ObjectMeta)
NormalizeOf(c) ==
    LET metas == normalizeSystemMetadata(c.mem[c.oldRef].ObjectMeta,
                                         c.mem[c.newRef].ObjectMeta)
    IN  [c EXCEPT !.mem = [@ EXCEPT ![c.oldRef].ObjectMeta = metas[1],
                                    ![c.newRef].ObjectMeta = metas[2]],
                  !.normalized = TRUE,
                  !.pc = "diff"]

\* steps 4 and 5: the comparison of the two copies and the return
DiffOf(c) ==
    LET specChanged == ~SemanticDeepEqual(c.mem[c.oldRef].Spec, c.mem[c.newRef].Spec)
        metadataChanged == ~SemanticDeepEqual(c.mem[c.oldRef].ObjectMeta,
                                              c.mem[c.newRef].ObjectMeta)
    IN  IF specChanged \/ metadataChanged
        THEN IF metadataChanged THEN Finish(c, "DenyMetadata") ELSE Finish(c, "DenySpec")
        ELSE Finish(c, "Allow")

\* subresourcePermissions read from one map shared by all calls
SubresourcePermissions_Shared(cs, i) == cs[1].perms

\* subresourcePermissions is a local of the call
SubresourcePermissions(cs, i) == cs[i].perms

-----------------------------------------------------------------------------
(* The calls followed statement by statement *)

StepEditSeqs == UNION { [1..n -> Edits] : n \in 0..MaxStepEdits }

StepCalls ==
    { [old |-> b, new |-> ApplyEdits(es, b), hasRequest |-> TRUE] :
          b \in BaseVMs, es \in StepEditSeqs }
        \cup MalformedCalls

\* after a true answer for full-admin no other answer is asked for
StepOracles ==
    { oracle \in Oracles :
        oracle[FullAdmin] = "true"
            => \A s \in AllSubresources \ { FullAdmin } : oracle[s] = "false" }

\* the calls and answers of the interleaved calls: a CD-ROM media change and a
\* label change, by a cdrom-user and by an actor without grants
ConcCalls ==
    { [old |-> CdromVM, new |-> Edit("InjectMedia", CdromVM), hasRequest |-> TRUE],
      [old |-> DiskVM, new |-> Edit("Labels", DiskVM), hasRequest |-> TRUE] }

ConcOracles == { GrantOracle({ Subresource("cdrom") }), GrantOracle({}) }

\* call i becomes c
Put(i, c) ==
    /\ calls' = [calls EXCEPT ![i] = c]
    /\ UNCHANGED atomicVars

\* the admission handler calls ValidateUpdate
Begin(i, inputs, oracles) ==
    /\ calls[i].pc = "idle"
    /\ \E inp \in inputs, oracle \in oracles :
          Put(i, [IdleCall EXCEPT !.pc = "entry",
                                  !.oldIn = inp.old, !.newIn = inp.new,
                                  !.hasRequest = inp.hasRequest,
                                  !.oracle = oracle,
                                  !.mem = [@ EXCEPT !["oldObj"] = inp.old,
                                                    !["newObj"] = inp.new]])

BeginStep(i) == Begin(i, StepCalls, StepOracles)

BeginConc(i) == Begin(i, ConcCalls, ConcOracles)

Entry(i) ==
    /\ calls[i].pc = "entry"
    /\ Put(i, EntryOf(calls[i]))

QueryFullAdmin(i) ==
    /\ calls[i].pc = "fullAdmin"
    /\ Put(i, FullAdminOf(calls[i]))

QuerySubresource(i) ==
    /\ calls[i].pc = "query"
    /\ calls[i].idx <= Len(FieldCheckers)
    /\ Put(i, QueryOf(calls[i]))

OptIn(i) ==
    /\ calls[i].pc = "query"
    /\ calls[i].idx > Len(FieldCheckers)
    /\ Put(i, OptInOf(calls[i]))

Copy(i) ==
    /\ calls[i].pc = "copy"
    /\ Put(i, CopyOf(calls[i]))

Check(i) ==
    /\ calls[i].pc = "check"
    /\ calls[i].idx <= Len(FieldCheckers)
    /\ Put(i, CheckIteration(calls[i], SubresourcePermissions(calls, i)))

Normalize(i) ==
    /\ calls[i].pc = "check"
    /\ calls[i].idx > Len(FieldCheckers)
    /\ Put(i, NormalizeOf(calls[i]))

Diff(i) ==
    /\ calls[i].pc = "diff"
    /\ Put(i, DiffOf(calls[i]))

\* the verdict is returned; the locals of the call are gone
Return(i) ==
    /\ calls[i].pc = "done"
    /\ Put(i, IdleCall)

InitSteps ==
    /\ phase = "idle"
    /\ op = "NONE"
    /\ oldObj = ZeroVM
    /\ newObj = ZeroVM
    /\ hasRequest = FALSE
    /\ queries = <<>>
    /\ verdict = "none"
    /\ calls = [i \in { 1 } |-> IdleCall]

NextSteps ==
    \/ \E i \in DOMAIN calls : BeginStep(i)
    \/ \E i \in DOMAIN calls : Entry(i)
    \/ \E i \in DOMAIN calls : QueryFullAdmin(i)
    \/ \E i \in DOMAIN calls : QuerySubresource(i)
    \/ \E i \in DOMAIN calls : OptIn(i)
    \/ \E i \in DOMAIN calls : Copy(i)
    \/ \E i \in DOMAIN calls : Check(i)
    \/ \E i \in DOMAIN calls : Normalize(i)
    \/ \E i \in DOMAIN calls : Diff(i)
    \/ \E i \in DOMAIN calls : Return(i)

SpecSteps == InitSteps /\ [][NextSteps]_vars

InitConc ==
    /\ phase = "idle"
    /\ op = "NONE"
    /\ oldObj = ZeroVM
    /\ newObj = ZeroVM
    /\ hasRequest = FALSE
    /\ queries = <<>>
    /\ verdict = "none"
    /\ calls = [i \in 1..NumCalls |-> IdleCall]

NextConc ==
    \/ \E i \in DOMAIN calls : BeginConc(i)
    \/ \E i \in DOMAIN calls : Entry(i)
    \/ \E i \in DOMAIN calls : QueryFullAdmin(i)
    \/ \E i \in DOMAIN calls : QuerySubresource(i)
    \/ \E i \in DOMAIN calls : OptIn(i)
    \/ \E i \in DOMAIN calls : Copy(i)
    \/ \E i \in DOMAIN calls : Check(i)
    \/ \E i \in DOMAIN calls : Normalize(i)
    \/ \E i \in DOMAIN calls : Diff(i)
    \/ \E i \in DOMAIN calls : Return(i)

SpecConc == InitConc /\ [][NextConc]_vars

-----------------------------------------------------------------------------
(* Claims about the calls followed statement by statement *)

\* an object of the call is of another type or its context carries no request
CallMalformed(c) ==
    ~IsVirtualMachine(c.oldIn) \/ ~IsVirtualMachine(c.newIn) \/ ~c.hasRequest

\* the call has evaluated HasChanged of every checker
EvaluatedAll(c) == Len(c.evaluated) = Len(FieldCheckers)

\* C15: on every path of ValidateUpdate the old and the new object handed in
\* are, at every statement and after the return, what they were at the call;
\* Neutralize and normalizeSystemMetadata act on the deep copies only.
C15_InputsNeverMutated ==
    \A i \in DOMAIN calls :
        /\ calls[i].mem["oldObj"] = calls[i].oldIn
        /\ calls[i].mem["newObj"] = calls[i].newIn

\* a call has neutralized a change in its copies and normalized their
\* metadata, has allowed the update, and the objects handed in are as they were
C15_Witness ==
    \E i \in DOMAIN calls :
        /\ calls[i].pc = "done"
        /\ calls[i].verdict = "Allow"
        /\ \E k \in 1..Len(calls[i].evaluated) : calls[i].evaluated[k].neutralized
        /\ calls[i].normalized
        /\ calls[i].mem["oldCopy"].Spec # calls[i].oldIn.Spec
        /\ calls[i].mem["oldCopy"].ObjectMeta # calls[i].oldIn.ObjectMeta
        /\ calls[i].mem["oldObj"] = calls[i].oldIn
        /\ calls[i].mem["newObj"] = calls[i].newIn

\* C16: under every interleaving of concurrent ValidateUpdate calls, each
\* call returns the verdict, and has issued the queries, that ValidateUpdate
\* gives for its own old and new object and its own oracle answers.
C16_CallsIndependent ==
    \A i \in DOMAIN calls :
        calls[i].pc = "done"
        => LET r == ValidateUpdateCall(calls[i].oldIn, calls[i].newIn,
                                       calls[i].hasRequest, calls[i].oracle)
           IN  calls[i].verdict = r.verdict /\ calls[i].log = r.queries

\* a cdrom-user's media change was allowed while another call, for other
\* objects, was inside its checker loop
C16_Witness ==
    \E i, j \in DOMAIN calls :
        /\ i # j
        /\ calls[i].pc = "done"
        /\ calls[i].perms[Subresource("cdrom")]
        /\ \E k \in 1..Len(calls[i].evaluated) : calls[i].evaluated[k].neutralized
        /\ calls[i].verdict = "Allow"
        /\ calls[j].pc = "check"
        /\ calls[j].idx > 1
        /\ calls[j].oldIn # calls[i].oldIn

\* C18: when the old or the new object is not a VirtualMachine, or the
\* context carries no admission request, ValidateUpdate returns an error
\* without having issued a query and without having evaluated a checker.
C18_MalformedCallError ==
    \A i \in DOMAIN calls :
        (calls[i].pc \notin { "idle", "entry" } /\ CallMalformed(calls[i]))
        => /\ calls[i].pc = "done"
           /\ calls[i].verdict = "Error"
           /\ calls[i].log = <<>>
           /\ calls[i].evaluated = <<>>

\* a call for two VirtualMachines without an admission request has returned
\* an error
C18_Witness ==
    \E i \in DOMAIN calls :
        /\ calls[i].pc = "done"
        /\ IsVirtualMachine(calls[i].oldIn) /\ IsVirtualMachine(calls[i].newIn)
        /\ ~calls[i].hasRequest
        /\ calls[i].verdict = "Error"
        /\ calls[i].log = <<>>

\* the next iteration of the checker loop of call c finds a change that the
\* actor may not make
Unauthorized(c) ==
    /\ c.pc = "check"
    /\ c.idx <= Len(FieldCheckers)
    /\ ~HasChangedPanics(FieldCheckers[c.idx], c.mem[c.oldRef], c.mem[c.newRef])
    /\ HasChanged(FieldCheckers[c.idx], c.mem[c.oldRef], c.mem[c.newRef])
    /\ ~c.perms[Subresource(FieldCheckers[c.idx])]

\* C19: when HasChanged of a checker is true and its subresource is not
\* granted, that iteration leaves all objects as they are, does not return,
\* and the loop goes on with the next checker; a denial is returned only
\* after every checker was evaluated and the metadata was normalized.
C19_UnauthorizedChangeContinues ==
    /\ [][\A i \in DOMAIN calls :
            (Unauthorized(calls[i]) /\ calls'[i] # calls[i])
            => /\ calls'[i].mem = calls[i].mem
               /\ calls'[i].pc = "check"
               /\ calls'[i].idx = calls[i].idx + 1
               /\ calls'[i].verdict = "none"]_vars
    /\ [](\A i \in DOMAIN calls :
            calls[i].verdict \in { "DenySpec", "DenyMetadata" }
            => EvaluatedAll(calls[i]) /\ calls[i].normalized)

\* a CD-ROM change was seen without cdrom-user, was neutralized by the storage
\* checker later in the loop, and the update was allowed
C19_Witness ==
    \E i \in DOMAIN calls :
        /\ calls[i].pc = "done"
        /\ EvaluatedAll(calls[i])
        /\ calls[i].evaluated[5] = Evaluation("cdrom", "true", FALSE)
        /\ calls[i].evaluated[6] = Evaluation("storage", "true", TRUE)
        /\ calls[i].verdict = "Allow"

\* the only difference of the two objects is CD-ROM media injected, ejected or swapped
MediaOnlyChange(oldVM, newVM) ==
    /\ IsVirtualMachine(oldVM) /\ IsVirtualMachine(newVM)
    /\ HasTemplate(oldVM) /\ HasTemplate(newVM)
    /\ [oldVM EXCEPT !.Spec.Template[1].Spec.Volumes = <<>>]
         = [newVM EXCEPT !.Spec.Template[1].Spec.Volumes = <<>>]
    /\ IsInject(oldVM, newVM) \/ IsEject(oldVM, newVM) \/ IsSwap(oldVM, newVM)

\* what HasChanged of the k-th checker gives on the copies as the checkers
\* before it leave them
ChangedAfterEarlier(c, k) ==
    LET before == CheckerLoop(SubSeq(FieldCheckers, 1, k - 1), 1, c.oldIn, c.newIn, c.perms)
    IN  CASE before.panic -> "none"
          [] HasChangedPanics(FieldCheckers[k], before.oldCopy, before.newCopy) -> "panic"
          [] HasChanged(FieldCheckers[k], before.oldCopy, before.newCopy) -> "true"
          [] OTHER -> "false"

\* C20: in the checker loop every checker's HasChanged is evaluated on the
\* copies as all earlier checkers of the loop have left them; for a change of
\* CD-ROM media only, with cdrom-user granted, the later HasChanged of the
\* storage checker is false.
C20_HasChangedOnWorkingCopies ==
    \A i \in DOMAIN calls :
        /\ \A k \in 1..Len(calls[i].evaluated) :
              /\ calls[i].evaluated[k].checker = FieldCheckers[k]
              /\ calls[i].evaluated[k].changed = ChangedAfterEarlier(calls[i], k)
        /\ ( /\ EvaluatedAll(calls[i])
             /\ MediaOnlyChange(calls[i].oldIn, calls[i].newIn)
             /\ calls[i].perms[Subresource("cdrom")] )
           => calls[i].evaluated[6].changed = "false"

\* media was injected by an actor with cdrom-user: the storage checker, whose
\* fields differ in the objects handed in, found no change in the copies
C20_Witness ==
    \E i \in DOMAIN calls :
        /\ calls[i].pc = "done"
        /\ EvaluatedAll(calls[i])
        /\ MediaOnlyChange(calls[i].oldIn, calls[i].newIn)
        /\ StorageHasChanged(calls[i].oldIn, calls[i].newIn)
        /\ calls[i].evaluated[5] = Evaluation("cdrom", "true", TRUE)
        /\ calls[i].evaluated[6] = Evaluation("storage", "false", FALSE)
        /\ calls[i].verdict = "Allow"

-----------------------------------------------------------------------------
(* Updates whose verdict is computed again from the inputs of the call: with
   another checker list, with other grants, or up to the residual copies *)

\* the number of edits between the old and the new object of these updates
MaxListEdits == 2

\* one edit per checker, CD-ROM media edits, and edits that no checker covers
ListEdits ==
    { "Labels", "RunStrategy", "DataVolumeTemplates", "DropTemplate", "Interfaces", "CPU",
      "GPUs", "Memory", "AddVolume", "AddCdromDisk", "InjectMedia", "EjectMedia",
      "SwapMedia", "ToggleHotpluggable" }

ListEditSeqs == UNION { [1..n -> ListEdits] : n \in 0..MaxListEdits }

ListCalls ==
    { [old |-> b, new |-> ApplyEdits(es, b), hasRequest |-> TRUE] :
          b \in BaseVMs, es \in ListEditSeqs }

\* the API server calls the webhook for one of the updates of ListCalls
AdmitListed ==
    /\ phase = "idle"
    /\ \E c \in ListCalls :
          /\ oldObj' = c.old
          /\ newObj' = c.new
          /\ hasRequest' = c.hasRequest
    /\ phase' = "pending"
    /\ op' = "UPDATE"
    /\ UNCHANGED <<queries, verdict, calls>>

NextList ==
    \/ AdmitListed
    \/ ValidateUpdate
    \/ CheckPermissionReturns
    \/ Respond

SpecList == Init /\ [][NextList]_vars

\* the checkers that the setup declares independent, in the configured order
IndependentCheckers == << "network", "compute", "devices", "lifecycle" >>

\* FieldCheckers with the superset checker before the subset checker
SupersetFirst == IndependentCheckers \o << "storage", "cdrom" >>

\* what ValidateUpdate returns for the finished call when the validator is
\* set up with the list checkers
VerdictWith(checkers) ==
    ValidateUpdateWith(checkers, oldObj, newObj, GrantOracle(Held)).verdict

\* the storage checker sees the change of the CD-ROM media on the originals
MediaChangeSeenByStorage ==
    /\ BothTemplates
    /\ CdromHasChanged(oldObj, newObj)
    /\ StorageHasChanged(oldObj, newObj)

\* C21 as stated: an update of the CD-ROM media by an actor holding only
\* cdrom-user, allowed with CdromMedia before Storage, is denied when
\* Storage is evaluated before CdromMedia.
C21_SupersetFirstDenies ==
    (UpdateDone /\ Granular /\ Held = { Subresource("cdrom") }
        /\ MediaChangeSeenByStorage /\ verdict = "Allow")
        => VerdictWith(SupersetFirst) \in { "DenySpec", "DenyMetadata" }

\* C21: the relative order of CdromMedia and Storage does not affect the
\* verdict.  For every update and every set of granted subresources the
\* validator set up with Storage before CdromMedia returns the verdict of
\* the configured order: a change that Storage sees without a grant is not
\* remembered, and the CD-ROM media change is neutralized when CdromMedia
\* is reached.
C21_PairOrderIrrelevant ==
    (UpdateDone /\ Granular) => VerdictWith(SupersetFirst) = verdict

C21_Witness ==
    /\ UpdateDone /\ Granular /\ Held = { Subresource("cdrom") }
    /\ MediaChangeSeenByStorage
    /\ verdict = "Allow"
    /\ VerdictWith(SupersetFirst) = "Allow"

InsertAt(s, k, x) == SubSeq(s, 1, k - 1) \o << x >> \o SubSeq(s, k, Len(s))

\* the independent checkers in every order, followed by the hierarchical pair
PermutedLists ==
    { p \o << "cdrom", "storage" >> :
        p \in { q \in [1..4 -> { "network", "compute", "devices", "lifecycle" }] :
                    \A i, j \in 1..4 : q[i] = q[j] => i = j } }

\* the hierarchical pair, subset first, at every two positions among the
\* independent checkers
MovedPairLists ==
    { InsertAt(InsertAt(IndependentCheckers, at[1], "cdrom"), at[2], "storage") :
        at \in { x \in (1..5) \X (2..6) : x[1] < x[2] } }

\* the checkers whose HasChanged is true on the originals of the finished call
ChangedOnOriginals ==
    { c \in CheckerNames :
        ~HasChangedPanics(c, oldObj, newObj) /\ HasChanged(c, oldObj, newObj) }

\* C22: the independent checkers can be in any order.  For every update and
\* every set of granted subresources, a validator whose list permutes
\* Network, Compute, Devices and Lifecycle among themselves, or places the
\* pair CdromMedia, Storage elsewhere among them, returns the verdict
\* (reason included) of the configured list.
C22_IndependentOrder ==
    (UpdateDone /\ Granular)
        => \A checkers \in PermutedLists \cup MovedPairLists :
              VerdictWith(checkers) = verdict

\* two independent checkers see a change, one with and one without a grant,
\* and the reversed list and the list starting with the pair deny like the
\* configured one
C22_Witness ==
    /\ UpdateDone /\ Granular
    /\ { "network", "compute" } \subseteq ChangedOnOriginals
    /\ Subresource("network") \in Held /\ Subresource("compute") \notin Held
    /\ verdict = "DenySpec"
    /\ << "lifecycle", "devices", "compute", "network", "cdrom", "storage" >> \in PermutedLists
    /\ << "cdrom", "storage" >> \o IndependentCheckers \in MovedPairLists
    /\ VerdictWith(<< "lifecycle", "devices", "compute", "network", "cdrom", "storage" >>)
          = "DenySpec"

-----------------------------------------------------------------------------
(* The checkers called on their own, as the checker tests call them: two
   VirtualMachine objects are set up, and HasChanged and Neutralize of one
   checker are called on them.  Neutralize works in place: oldObj and newObj
   are the two objects as the calls so far left them, calls holds their
   values before each Neutralize, verdict the result of the last HasChanged
   since, op the checker. *)

\* the number of edits between the two objects handed to a checker
MaxCopyEdits == 2

CopyEdits ==
    { "Labels", "RunStrategy", "DataVolumeTemplates", "Memory", "DropTemplate",
      "Interfaces", "CPU", "GPUs", "Filesystems", "AddVolume", "AddDisk", "AddCdromDisk",
      "RemoveCdromDisk", "InjectMedia", "InjectMediaPVC", "EjectMedia", "SwapMedia",
      "ToggleHotpluggable" }

CopyEditSeqs == UNION { [1..n -> CopyEdits] : n \in 0..MaxCopyEdits }

\* the pairs of objects: a base VM and an edited one, in either role
CopyPairs ==
    LET edited == { <<b, ApplyEdits(es, b)>> : b \in BaseVMs, es \in CopyEditSeqs }
    IN  { [old |-> x[1], new |-> x[2]] : x \in edited }
            \cup { [old |-> x[2], new |-> x[1]] : x \in edited }

SetUpCopies ==
    /\ phase = "idle"
    /\ \E pair \in CopyPairs :
          /\ oldObj' = pair.old
          /\ newObj' = pair.new
    /\ op' \in CheckerNames
    /\ phase' = "copies"
    /\ UNCHANGED <<hasRequest, queries, verdict, calls>>

\* checker.HasChanged(oldVM, newVM); a panic ends the run
CallHasChanged ==
    /\ phase \in { "copies", "neutralized", "again" }
    /\ verdict # "panic"
    /\ verdict' = IF HasChangedPanics(op, oldObj, newObj) THEN "panic"
                  ELSE IF HasChanged(op, oldObj, newObj) THEN "true" ELSE "false"
    /\ UNCHANGED <<phase, op, oldObj, newObj, hasRequest, queries, calls>>

\* checker.Neutralize(oldVM, newVM), at most twice in a row
CallNeutralize ==
    /\ phase \in { "copies", "neutralized" }
    /\ verdict # "panic"
    /\ LET n == Neutralize(op, oldObj, newObj)
       IN  /\ oldObj' = n[1]
           /\ newObj' = n[2]
    /\ calls' = Append(calls, [old |-> oldObj, new |-> newObj])
    /\ phase' = IF phase = "copies" THEN "neutralized" ELSE "again"
    /\ verdict' = "none"
    /\ UNCHANGED <<op, hasRequest, queries>>

TearDown ==
    /\ phase \in { "copies", "neutralized", "again" }
    /\ phase' = "idle"
    /\ op' = "NONE"
    /\ oldObj' = ZeroVM
    /\ newObj' = ZeroVM
    /\ verdict' = "none"
    /\ calls' = <<>>
    /\ UNCHANGED <<hasRequest, queries>>

NextCheckers ==
    \/ SetUpCopies
    \/ CallHasChanged
    \/ CallNeutralize
    \/ TearDown

SpecCheckers == Init /\ [][NextCheckers]_vars

\* Neutralize of checker op has been called on the two objects
Neutralized == phase \in { "neutralized", "again" }

\* C23: for each of the six checkers and two objects that both carry a
\* template, HasChanged of the checker is false after its Neutralize,
\* whatever the objects were before, and a second Neutralize leaves both
\* objects as the first one left them.
C23_NeutralizeErasesAndIsIdempotent ==
    (Neutralized /\ BothTemplates)
        => /\ verdict \in { "none", "false" }
           /\ phase = "again" => (oldObj = calls[2].old /\ newObj = calls[2].new)

\* the CD-ROM media differed, Neutralize was called twice and HasChanged
\* was called after it
C23_Witness ==
    /\ phase = "again" /\ op = "cdrom" /\ BothTemplates
    /\ CdromHasChanged(calls[1].old, calls[1].new)
    /\ <<calls[2].old, calls[2].new>> # <<calls[1].old, calls[1].new>>
    /\ verdict = "false"

\* C24: Neutralize of Storage, Network, Compute, Devices and Lifecycle
\* changes only the fields of the checker in both objects: every other spec
\* field and the metadata of each object are after the call what they were
\* before it.
C24_NeutralizeKeepsOtherFields ==
    (Neutralized /\ op \in { "storage", "network", "compute", "devices", "lifecycle" })
        => LET before == calls[Len(calls)]
           IN  /\ Outside(op, oldObj) = Outside(op, before.old)
               /\ Outside(op, newObj) = Outside(op, before.new)

\* Compute's Neutralize has erased a difference of its fields, and a
\* difference in other fields of the spec is still there
C24_Witness ==
    /\ phase = "neutralized" /\ op = "compute" /\ BothTemplates
    /\ Footprint("compute", calls[1].old) # Footprint("compute", calls[1].new)
    /\ Footprint("compute", oldObj) = Footprint("compute", newObj)
    /\ Outside("compute", calls[1].old) # Outside("compute", calls[1].new)
    /\ Outside("compute", oldObj) # Outside("compute", newObj)

\* the volumes of vm that are not hotpluggable volumes named like a CD-ROM
\* disk of vm
KeptByCdrom(vm) ==
    IF ~HasTemplate(vm) THEN <<>>
    ELSE LET media == getHotpluggableCdromVolumes(vm)
             Kept(volume) == \A i \in 1..Len(media) : media[i] # volume
         IN  SelectSeq(TSpec(vm).Volumes, Kept)

\* C25: Neutralize of CdromMedia removes from each object only the volumes
\* that are, in that object, hotpluggable and named like one of its CD-ROM
\* disks: every other volume of the object, a non-hotpluggable volume with
\* the name of a CD-ROM disk included, and every disk are still there after
\* the call.
C25_CdromNeutralizeRemovesOnlyMedia ==
    (Neutralized /\ op = "cdrom" /\ BothTemplates)
        => LET before == calls[Len(calls)]
               Kept(was, is) ==
                   /\ \A i \in 1..Len(KeptByCdrom(was)) :
                         \E j \in 1..Len(TSpec(is).Volumes) :
                             TSpec(is).Volumes[j] = KeptByCdrom(was)[i]
                   /\ TSpec(is).Domain.Devices.Disks = TSpec(was).Domain.Devices.Disks
           IN  Kept(before.old, oldObj) /\ Kept(before.new, newObj)

\* C26: HasChanged of CdromMedia is true exactly when the CD-ROM disks of
\* the two objects are identical and their hotpluggable volumes named like
\* a CD-ROM disk differ.  It is false when the CD-ROM disks differ, whatever
\* the volumes are, and false when the volumes differ only in volumes that
\* are not hotpluggable.
C26_CdromHasChangedExactly ==
    (phase = "copies" /\ op = "cdrom" /\ verdict # "none")
        => LET sameDisks == CdromDisksOf(oldObj) = CdromDisksOf(newObj)
               sameMedia == CdromMediaOf(oldObj) = CdromMediaOf(newObj)
               Hot(volume) == isVolumeHotpluggable(volume)
               sameHot == SelectSeq(TmplSpec(oldObj).Volumes, Hot)
                              = SelectSeq(TmplSpec(newObj).Volumes, Hot)
           IN  /\ verdict = "true" <=> (sameDisks /\ ~sameMedia)
               /\ ~sameDisks => verdict = "false"
               /\ sameHot => verdict = "false"

\* the CD-ROM disks differ and so do the media: HasChanged returned false
C26_Witness ==
    /\ phase = "copies" /\ op = "cdrom" /\ BothTemplates
    /\ CdromDisksOf(oldObj) # CdromDisksOf(newObj)
    /\ CdromMediaOf(oldObj) # CdromMediaOf(newObj)
    /\ verdict = "false"

-----------------------------------------------------------------------------
(* The CheckPermission calls of one ValidateUpdate call *)

\* the subresources in the order in which ValidateUpdate asks for them
QueryOrder ==
    << FullAdmin >> \o [k \in 1..Len(FieldCheckers) |-> Subresource(FieldCheckers[k])]

\* call c has made copies, evaluated a checker or normalized metadata
PastQueries(c) ==
    \/ c.pc \in { "copy", "check", "diff" }
    \/ c.evaluated # <<>>
    \/ c.normalized
    \/ c.oldRef # "oldObj" \/ c.newRef # "newObj"

\* C27: the CheckPermission calls of ValidateUpdate.  The first call asks
\* for full-admin.  After the answer true no other call is made and no
\* copy is taken, no checker evaluated and no metadata normalized.
\* Otherwise the subresource of every checker is asked for once, in list
\* order, also after an answer true; the copies are taken and HasChanged is
\* evaluated only when all of them have been answered, their answers are
\* the subresourcePermissions used from then on, and no CheckPermission
\* call is made after that.
C27_QueryProtocol ==
    /\ [](\A i \in DOMAIN calls :
            LET c == calls[i]
            IN  /\ Len(c.log) <= Len(QueryOrder)
                /\ \A k \in 1..Len(c.log) :
                      /\ c.log[k].subresource = QueryOrder[k]
                      /\ c.log[k].answer = c.oracle[QueryOrder[k]]
                /\ (c.log # <<>> /\ c.log[1].answer = "true")
                      => (Len(c.log) = 1 /\ ~PastQueries(c) /\ c.verdict = "Allow")
                /\ PastQueries(c)
                      => /\ Len(c.log) = Len(QueryOrder)
                         /\ \A k \in 2..Len(c.log) :
                               /\ c.log[k].answer # "error"
                               /\ c.perms[c.log[k].subresource] = (c.log[k].answer = "true"))
    /\ [][\A i \in DOMAIN calls :
            PastQueries(calls[i]) /\ calls'[i].pc # "idle"
                => /\ calls'[i].log = calls[i].log
                   /\ calls'[i].perms = calls[i].perms]_vars

\* the first checker's subresource was granted, the five others were asked
\* for all the same, and the checkers were evaluated afterwards
C27_Witness ==
    \E i \in DOMAIN calls :
        /\ calls[i].pc = "done"
        /\ Len(calls[i].log) = Len(QueryOrder)
        /\ calls[i].log[2].answer = "true"
        /\ calls[i].log[Len(QueryOrder)].answer = "false"
        /\ EvaluatedAll(calls[i])
        /\ calls[i].normalized

-----------------------------------------------------------------------------
(* Fields that no checker covers, templates that are absent, more grants *)

\* the spec fields of vm that no checker compares or neutralizes
Unchecked(vm) == <<HasTemplate(vm), vm.Spec.DataVolumeTemplates, TmplSpec(vm).Domain.Memory>>

\* C28: for an actor without full-admin who holds at least one granular
\* subresource, an update that changes a spec field outside the fields of
\* every checker (and leaves the user-managed metadata alone) is denied
\* for a spec violation, whatever granular subresources the actor holds,
\* all six included.
C28_UncheckedFieldDenied ==
    (UpdateDone /\ Granular /\ Held # {}
        /\ UserMeta(oldObj) = UserMeta(newObj)
        /\ Unchecked(oldObj) # Unchecked(newObj))
        => verdict = "DenySpec"

\* C29: ValidateUpdate returns one of Allow, Deny and Error for every two
\* VirtualMachine objects and every answer of the oracle, objects without a
\* template included: no HasChanged or Neutralize of a checker dereferences
\* an absent template.
C29_NoPanicWithoutTemplate ==
    UpdateDone => verdict \in { "Allow", "DenySpec", "DenyMetadata", "Error" }

\* C30: for an actor without full-admin who holds at least one granular
\* subresource, an update that is allowed is not denied when the actor is
\* granted one more granular subresource.
C30_GrantMonotonicity ==
    (UpdateDone /\ Granular /\ Held # {} /\ verdict = "Allow")
        => \A sub \in (AllSubresources \ { FullAdmin }) \ Held :
              ValidateUpdateResult(oldObj, newObj, GrantOracle(Held \cup { sub })).verdict
                  \notin { "DenySpec", "DenyMetadata" }

\* a CD-ROM media change allowed through cdrom-user alone, and allowed
\* again when storage-admin is granted as well
C30_Witness ==
    /\ UpdateDone /\ Granular /\ Held = { Subresource("cdrom") }
    /\ BothTemplates /\ CdromHasChanged(oldObj, newObj)
    /\ verdict = "Allow"
    /\ ValidateUpdateResult(oldObj, newObj,
                            GrantOracle({ Subresource("cdrom"), Subresource("storage") })).verdict
          = "Allow"

====
